---- MODULE Spec2Model ----
(***************************************************************************)
(* A model of the decision engines of the stock-market news intelligence   *)
(* pipeline: the deduplication agent, the entity extraction agent, the     *)
(* stock impact agent and the story aggregation of the storage agent.      *)
(*                                                                         *)
(* Each engine has its own specification over the shared variables:        *)
(*   Spec         DeduplicationAgent.process over a run of articles        *)
(*   SpecCompany  map_company_to_stock on one company name                 *)
(*   SpecImpact   StockImpactAnalysisAgent.process, create_unique_story    *)
(*   SpecEntity   EntityExtractionAgent.process, create_unique_story       *)
(*   SpecRegulator  map_regulator_to_stocks on one regulator name          *)
(*   SpecPipeline   the endpoints of main.py over the five agents          *)
(*   SpecQuery      QueryProcessingAgent.process on a stored story list    *)
(*   SpecFailure    the endpoints when the sentence encoder can raise      *)
(***************************************************************************)
EXTENDS Integers, Sequences, FiniteSets, TLC

VARIABLES
    threshold,           \* DeduplicationAgent.threshold (a float, see Float)
    processed_articles,  \* DeduplicationAgent.processed_articles (the seen list)
    article,             \* the NewsArticle the caller holds (mutated in place by the agents)
    outcome,             \* how the last agent call ended: "none", "ok" or "error"
    calls,               \* number of DeduplicationAgent.process calls that returned
    company,             \* the company name given to map_company_to_stock
    mapped,              \* the StockImpact map_company_to_stock returned
    story,               \* the UniqueStory create_unique_story returned
    extractor,           \* how the external extractor behaved in the last call
    set_order,           \* iteration order of the entity agent's sets of known terms
    regulator,           \* the regulator name given to map_regulator_to_stocks
    reg_impacts,         \* the list map_regulator_to_stocks returned
    pc,                  \* where the running endpoint call of main.py stands
    news_articles,       \* the articles of the running call still to go through the agents
    processed,           \* the articles of the running call that went through the agents
    unique_stories,      \* StorageIndexingAgent.unique_stories (the accumulated story list)
    stories_file,        \* the records of unique_stories.json
    returned,            \* the list the last StorageIndexingAgent.process returned
    at_call,             \* the seen list and the story list when the running call began
    request,             \* the arguments of QueryProcessingAgent.process
    query_result         \* the QueryResult it returned

regulatorVars == <<regulator, reg_impacts>>
pipelineVars  == <<pc, news_articles, processed, unique_stories, stories_file, returned,
                   at_call>>
queryVars     == <<request, query_result>>

vars == <<threshold, processed_articles, article, outcome, calls, company, mapped, story,
          extractor, set_order, regulatorVars, pipelineVars, queryVars>>

(***************************************************************************)
(* Bounds of the model.                                                    *)
(***************************************************************************)
\* articles a DeduplicationAgent is given in one run
MaxSeen == 3
\* length of the generated company names
MaxNameLen == 3
\* entities of an article given to the stock impact agent
MaxEntities == 2
\* duplicates given to create_unique_story
MaxDuplicates == 2
\* words of a regulator name given to map_regulator_to_stocks
MaxTokens == 2
\* the result limit of a query
MaxLimit == 2

None == "None"

\* embedding = None (the schema's default): no vector at all
NoEmbedding == <<>>

(***************************************************************************)
(* NewsArticle (schemas.py).  Ids are the 12-hex-digit digests of          *)
(* title+source; two submissions may carry the same id.                    *)
(***************************************************************************)
Ids == {"a1", "a2"}

\* Embedding vectors.  <<0, 0>> has norm 0: its cosine with anything is 0/0.
Embeddings == { <<2, 1>>, <<1, 1>>, <<1, 2>>, <<1, -1>>, <<0, 0>> }

\* Configured thresholds: 0, 0.5, the default 0.85, and 1.
Thresholds == { <<0, 1>>, <<1, 2>>, <<17, 20>>, <<1, 1>> }

NoArticle == [id |-> None]

\* NewsArticle(id=..., ...) with the schema's defaults for the processed fields
NewsArticle(id, title, content, emb) ==
    [ id            |-> id,
      title         |-> title,
      content       |-> content,
      entities      |-> <<>>,
      stock_impacts |-> <<>>,
      embedding     |-> emb,
      is_duplicate  |-> FALSE,
      duplicate_of  |-> None ]

\* the values of the variables that hold no result yet
NoImpact == [symbol |-> None]
NoStory  == [id |-> None]
NoLlm    == [api_key |-> None]
NoFile   == [exists |-> FALSE]
NoCall   == [running |-> FALSE]
NoRequest == [query |-> None]
NoResult == [query |-> None]

\* no regulator name was mapped
RegulatorIdle == regulator = <<>> /\ reg_impacts = <<>>

\* StorageIndexingAgent.__init__ (unique_stories = []), no endpoint call running
PipelineIdle ==
    /\ pc = "idle"
    /\ news_articles = <<>>
    /\ processed = <<>>
    /\ unique_stories = <<>>
    /\ stories_file = NoFile
    /\ returned = <<>>
    /\ at_call = NoCall

\* no query was processed
QueryIdle == request = NoRequest /\ query_result = NoResult

(***************************************************************************)
(* EmbeddingGenerator.get_similarity: the cosine dot(a,b)/(|a|*|b|).       *)
(* The value is kept exactly, as the signed square                         *)
(*     sgn(dot) * dot^2 / (|a|^2 * |b|^2)                                  *)
(* which orders the same way as the cosine itself (x -> sgn(x)*x^2 is      *)
(* strictly increasing).  A zero norm makes the quotient 0/0 = NaN, which  *)
(* compares false with everything.                                         *)
(***************************************************************************)
Dot(a, b) == a[1] * b[1] + a[2] * b[2]

Sgn(x) == IF x > 0 THEN 1 ELSE IF x < 0 THEN -1 ELSE 0

get_similarity(e1, e2) ==
    LET d  == Dot(e1, e2)
        nn == Dot(e1, e1) * Dot(e2, e2)
    IN  IF nn = 0 THEN [nan |-> TRUE,  n |-> 0, d |-> 1]
                  ELSE [nan |-> FALSE, n |-> Sgn(d) * d * d, d |-> nn]

\* a float literal p/q as a similarity value
Float(p, q) == [nan |-> FALSE, n |-> Sgn(p) * p * p, d |-> q * q]

\* s1 > s2 and s1 >= s2 on floats
FloatGT(s1, s2) == ~s1.nan /\ ~s2.nan /\ s1.n * s2.d > s2.n * s1.d
FloatGE(s1, s2) == ~s1.nan /\ ~s2.nan /\ s1.n * s2.d >= s2.n * s1.d
FloatLT(s1, s2) == FloatGT(s2, s1)

\* calculate_similarity: raises ValueError when an embedding is missing
calculate_similarity(a1, a2) ==
    IF a1.embedding = NoEmbedding \/ a2.embedding = NoEmbedding
    THEN [raised |-> TRUE]
    ELSE [raised |-> FALSE, value |-> get_similarity(a1.embedding, a2.embedding)]

(***************************************************************************)
(* DeduplicationAgent.find_duplicates: one scan of the seen list.          *)
(***************************************************************************)
RECURSIVE ScanSeen(_, _, _, _, _)
ScanSeen(new_article, thr, seen, i, acc) ==
    IF i > Len(seen) THEN acc
    ELSE LET existing == seen[i]
             sim      == calculate_similarity(new_article, existing)
         IN  IF sim.raised THEN [acc EXCEPT !.raised = TRUE]
             ELSE LET similarity == sim.value
                      better     == FloatGT(similarity, acc.max_similarity)
                      acc2 == [acc EXCEPT
                                 !.max_similarity = IF better THEN similarity ELSE @,
                                 !.duplicate_of   = IF better THEN existing.id ELSE @,
                                 !.all_similar    = IF FloatGE(similarity, thr)
                                                    THEN Append(@, existing.id) ELSE @]
                  IN  ScanSeen(new_article, thr, seen, i + 1, acc2)

\* A scan that moves to a later article of the same similarity.
RECURSIVE ScanSeen_LastOnTie(_, _, _, _, _)
ScanSeen_LastOnTie(new_article, thr, seen, i, acc) ==
    IF i > Len(seen) THEN acc
    ELSE LET existing == seen[i]
             sim      == calculate_similarity(new_article, existing)
         IN  IF sim.raised THEN [acc EXCEPT !.raised = TRUE]
             ELSE LET similarity == sim.value
                      better     == FloatGE(similarity, acc.max_similarity)
                      acc2 == [acc EXCEPT
                                 !.max_similarity = IF better THEN similarity ELSE @,
                                 !.duplicate_of   = IF better THEN existing.id ELSE @,
                                 !.all_similar    = IF FloatGE(similarity, thr)
                                                    THEN Append(@, existing.id) ELSE @]
                  IN  ScanSeen_LastOnTie(new_article, thr, seen, i + 1, acc2)

\* A search that returns the latest of the most similar articles.
find_duplicates_LastOnTie(new_article, thr, seen) ==
    IF seen = <<>>
    THEN [raised |-> FALSE, is_duplicate |-> FALSE, duplicate_of |-> None,
          max_similarity |-> Float(0, 1), all_similar |-> <<>>]
    ELSE LET r == ScanSeen_LastOnTie(new_article, thr, seen, 1,
                           [raised |-> FALSE, is_duplicate |-> FALSE, duplicate_of |-> None,
                            max_similarity |-> Float(0, 1), all_similar |-> <<>>])
         IN  [r EXCEPT !.is_duplicate = FloatGE(r.max_similarity, thr)]

\* DeduplicationAgent.find_duplicates
find_duplicates(new_article, thr, seen) ==
    IF seen = <<>>
    THEN [raised |-> FALSE, is_duplicate |-> FALSE, duplicate_of |-> None,
          max_similarity |-> Float(0, 1), all_similar |-> <<>>]
    ELSE LET r == ScanSeen(new_article, thr, seen, 1,
                           [raised |-> FALSE, is_duplicate |-> FALSE, duplicate_of |-> None,
                            max_similarity |-> Float(0, 1), all_similar |-> <<>>])
         IN  [r EXCEPT !.is_duplicate = FloatGE(r.max_similarity, thr)]

\* A process that records only the unique articles.
DedupProcess_UniqueOnly(a, thr, seen) ==
    IF a.embedding = NoEmbedding
    THEN [raised |-> TRUE, article |-> a, seen |-> seen]
    ELSE LET f  == find_duplicates(a, thr, seen)
             a2 == [a EXCEPT !.is_duplicate = f.is_duplicate,
                             !.duplicate_of = IF f.is_duplicate THEN f.duplicate_of ELSE None]
         IN  [raised |-> f.raised,
              article |-> IF f.raised THEN a ELSE a2,
              seen |-> IF f.raised \/ f.is_duplicate THEN seen ELSE Append(seen, a2)]

\* A process without the embedding precondition of line 110.
DedupProcess_NoPrecondition(a, thr, seen) ==
    LET f  == find_duplicates(a, thr, seen)
        a2 == [a EXCEPT !.is_duplicate = f.is_duplicate,
                        !.duplicate_of = IF f.is_duplicate THEN f.duplicate_of ELSE None]
    IN  IF f.raised
        THEN [raised |-> TRUE, article |-> a, seen |-> seen]
        ELSE [raised |-> FALSE, article |-> a2, seen |-> Append(seen, a2)]

(***************************************************************************)
(* DeduplicationAgent.process as a function of the article and the seen    *)
(* list: the article after the call, the seen list after it, and whether   *)
(* the call raised.                                                        *)
(***************************************************************************)
DedupProcess(a, thr, seen) ==
    IF a.embedding = NoEmbedding
    THEN [raised |-> TRUE, article |-> a, seen |-> seen]
    ELSE LET f == find_duplicates(a, thr, seen)
         IN  IF f.raised
             THEN [raised |-> TRUE, article |-> a, seen |-> seen]
             ELSE LET a2 == IF f.is_duplicate
                            THEN [a EXCEPT !.is_duplicate = TRUE,
                                           !.duplicate_of = f.duplicate_of]
                            ELSE [a EXCEPT !.is_duplicate = FALSE,
                                           !.duplicate_of = None]
                  IN  [raised |-> FALSE, article |-> a2, seen |-> Append(seen, a2)]

(***************************************************************************)
(* Text.  A Python str is the sequence of its characters, so that lower(), *)
(* title() and the substring test `x in y` are computed, not assumed.      *)
(***************************************************************************)
UpperCase == <<"A", "B", "C", "D", "E", "F", "G", "H", "I", "J", "K", "L", "M",
               "N", "O", "P", "Q", "R", "S", "T", "U", "V", "W", "X", "Y", "Z">>
LowerCase == <<"a", "b", "c", "d", "e", "f", "g", "h", "i", "j", "k", "l", "m",
               "n", "o", "p", "q", "r", "s", "t", "u", "v", "w", "x", "y", "z">>

IsUpper(c) == \E i \in DOMAIN UpperCase : UpperCase[i] = c
IsLower(c) == \E i \in DOMAIN LowerCase : LowerCase[i] = c

LowerChar(c) ==
    IF IsUpper(c) THEN LowerCase[CHOOSE i \in DOMAIN UpperCase : UpperCase[i] = c] ELSE c
UpperChar(c) ==
    IF IsLower(c) THEN UpperCase[CHOOSE i \in DOMAIN LowerCase : LowerCase[i] = c] ELSE c

\* str.lower() and str.upper()
Lower(s) == [i \in DOMAIN s |-> LowerChar(s[i])]
Upper(s) == [i \in DOMAIN s |-> UpperChar(s[i])]

\* `x in y` on strings: x occurs in y as a substring
IsSubstr(x, y) ==
    \E i \in 0..(Len(y) - Len(x)) : \A j \in 1..Len(x) : y[i + j] = x[j]

(***************************************************************************)
(* schemas.py: Entity and StockImpact.  Confidences are kept in units of   *)
(* 1/10000, so that base_conf * 0.85 is exact.                             *)
(***************************************************************************)
Entity(name, entity_type, mentions, context) ==
    [name |-> name, entity_type |-> entity_type, mentions |-> mentions, context |-> context]

StockImpact(symbol, company_name, confidence, impact_type, reasoning) ==
    [symbol |-> symbol, company_name |-> company_name, confidence |-> confidence,
     impact_type |-> impact_type, reasoning |-> reasoning]

(***************************************************************************)
(* StockImpactAnalysisAgent.__init__: the two static tables, in the        *)
(* insertion order of the dict literals.                                   *)
(***************************************************************************)
company_to_symbol == <<
    [key |-> <<"h", "d", "f", "c", " ", "b", "a", "n", "k">>, symbol |-> "HDFCBANK", full_name |-> <<"H", "D", "F", "C", " ", "B", "a", "n", "k", " ", "L", "t", "d">>],
    [key |-> <<"h", "d", "f", "c">>, symbol |-> "HDFCBANK", full_name |-> <<"H", "D", "F", "C", " ", "B", "a", "n", "k", " ", "L", "t", "d">>],
    [key |-> <<"i", "c", "i", "c", "i", " ", "b", "a", "n", "k">>, symbol |-> "ICICIBANK", full_name |-> <<"I", "C", "I", "C", "I", " ", "B", "a", "n", "k", " ", "L", "t", "d">>],
    [key |-> <<"i", "c", "i", "c", "i">>, symbol |-> "ICICIBANK", full_name |-> <<"I", "C", "I", "C", "I", " ", "B", "a", "n", "k", " ", "L", "t", "d">>],
    [key |-> <<"s", "b", "i">>, symbol |-> "SBIN", full_name |-> <<"S", "t", "a", "t", "e", " ", "B", "a", "n", "k", " ", "o", "f", " ", "I", "n", "d", "i", "a">>],
    [key |-> <<"s", "t", "a", "t", "e", " ", "b", "a", "n", "k">>, symbol |-> "SBIN", full_name |-> <<"S", "t", "a", "t", "e", " ", "B", "a", "n", "k", " ", "o", "f", " ", "I", "n", "d", "i", "a">>],
    [key |-> <<"a", "x", "i", "s", " ", "b", "a", "n", "k">>, symbol |-> "AXISBANK", full_name |-> <<"A", "x", "i", "s", " ", "B", "a", "n", "k", " ", "L", "t", "d">>],
    [key |-> <<"k", "o", "t", "a", "k", " ", "m", "a", "h", "i", "n", "d", "r", "a">>, symbol |-> "KOTAKBANK", full_name |-> <<"K", "o", "t", "a", "k", " ", "M", "a", "h", "i", "n", "d", "r", "a", " ", "B", "a", "n", "k">>],
    [key |-> <<"k", "o", "t", "a", "k">>, symbol |-> "KOTAKBANK", full_name |-> <<"K", "o", "t", "a", "k", " ", "M", "a", "h", "i", "n", "d", "r", "a", " ", "B", "a", "n", "k">>],
    [key |-> <<"t", "c", "s">>, symbol |-> "TCS", full_name |-> <<"T", "a", "t", "a", " ", "C", "o", "n", "s", "u", "l", "t", "a", "n", "c", "y", " ", "S", "e", "r", "v", "i", "c", "e", "s">>],
    [key |-> <<"t", "a", "t", "a", " ", "c", "o", "n", "s", "u", "l", "t", "a", "n", "c", "y">>, symbol |-> "TCS", full_name |-> <<"T", "a", "t", "a", " ", "C", "o", "n", "s", "u", "l", "t", "a", "n", "c", "y", " ", "S", "e", "r", "v", "i", "c", "e", "s">>],
    [key |-> <<"i", "n", "f", "o", "s", "y", "s">>, symbol |-> "INFY", full_name |-> <<"I", "n", "f", "o", "s", "y", "s", " ", "L", "t", "d">>],
    [key |-> <<"w", "i", "p", "r", "o">>, symbol |-> "WIPRO", full_name |-> <<"W", "i", "p", "r", "o", " ", "L", "t", "d">>],
    [key |-> <<"t", "e", "c", "h", " ", "m", "a", "h", "i", "n", "d", "r", "a">>, symbol |-> "TECHM", full_name |-> <<"T", "e", "c", "h", " ", "M", "a", "h", "i", "n", "d", "r", "a", " ", "L", "t", "d">>],
    [key |-> <<"h", "c", "l">>, symbol |-> "HCLTECH", full_name |-> <<"H", "C", "L", " ", "T", "e", "c", "h", "n", "o", "l", "o", "g", "i", "e", "s">>],
    [key |-> <<"h", "c", "l", " ", "t", "e", "c", "h", "n", "o", "l", "o", "g", "i", "e", "s">>, symbol |-> "HCLTECH", full_name |-> <<"H", "C", "L", " ", "T", "e", "c", "h", "n", "o", "l", "o", "g", "i", "e", "s">>],
    [key |-> <<"m", "a", "r", "u", "t", "i">>, symbol |-> "MARUTI", full_name |-> <<"M", "a", "r", "u", "t", "i", " ", "S", "u", "z", "u", "k", "i", " ", "I", "n", "d", "i", "a">>],
    [key |-> <<"m", "a", "r", "u", "t", "i", " ", "s", "u", "z", "u", "k", "i">>, symbol |-> "MARUTI", full_name |-> <<"M", "a", "r", "u", "t", "i", " ", "S", "u", "z", "u", "k", "i", " ", "I", "n", "d", "i", "a">>],
    [key |-> <<"t", "a", "t", "a", " ", "m", "o", "t", "o", "r", "s">>, symbol |-> "TATAMOTORS", full_name |-> <<"T", "a", "t", "a", " ", "M", "o", "t", "o", "r", "s", " ", "L", "t", "d">>],
    [key |-> <<"m", "a", "h", "i", "n", "d", "r", "a">>, symbol |-> "M&M", full_name |-> <<"M", "a", "h", "i", "n", "d", "r", "a", " ", "&", " ", "M", "a", "h", "i", "n", "d", "r", "a">>],
    [key |-> <<"b", "a", "j", "a", "j", " ", "a", "u", "t", "o">>, symbol |-> "BAJAJ-AUTO", full_name |-> <<"B", "a", "j", "a", "j", " ", "A", "u", "t", "o", " ", "L", "t", "d">>],
    [key |-> <<"b", "a", "j", "a", "j", " ", "f", "i", "n", "a", "n", "c", "e">>, symbol |-> "BAJFINANCE", full_name |-> <<"B", "a", "j", "a", "j", " ", "F", "i", "n", "a", "n", "c", "e", " ", "L", "t", "d">>],
    [key |-> <<"h", "d", "f", "c", " ", "l", "i", "f", "e">>, symbol |-> "HDFCLIFE", full_name |-> <<"H", "D", "F", "C", " ", "L", "i", "f", "e", " ", "I", "n", "s", "u", "r", "a", "n", "c", "e">>],
    [key |-> <<"r", "e", "l", "i", "a", "n", "c", "e">>, symbol |-> "RELIANCE", full_name |-> <<"R", "e", "l", "i", "a", "n", "c", "e", " ", "I", "n", "d", "u", "s", "t", "r", "i", "e", "s">>],
    [key |-> <<"b", "h", "a", "r", "t", "i", " ", "a", "i", "r", "t", "e", "l">>, symbol |-> "BHARTIARTL", full_name |-> <<"B", "h", "a", "r", "t", "i", " ", "A", "i", "r", "t", "e", "l">>],
    [key |-> <<"a", "i", "r", "t", "e", "l">>, symbol |-> "BHARTIARTL", full_name |-> <<"B", "h", "a", "r", "t", "i", " ", "A", "i", "r", "t", "e", "l">>],
    [key |-> <<"i", "t", "c">>, symbol |-> "ITC", full_name |-> <<"I", "T", "C", " ", "L", "t", "d">>],
    [key |-> <<"h", "u", "l">>, symbol |-> "HINDUNILVR", full_name |-> <<"H", "i", "n", "d", "u", "s", "t", "a", "n", " ", "U", "n", "i", "l", "e", "v", "e", "r">>],
    [key |-> <<"n", "e", "s", "t", "l", "e">>, symbol |-> "NESTLEIND", full_name |-> <<"N", "e", "s", "t", "l", "e", " ", "I", "n", "d", "i", "a">>],
    [key |-> <<"b", "r", "i", "t", "a", "n", "n", "i", "a">>, symbol |-> "BRITANNIA", full_name |-> <<"B", "r", "i", "t", "a", "n", "n", "i", "a", " ", "I", "n", "d", "u", "s", "t", "r", "i", "e", "s">>],
    [key |-> <<"i", "n", "d", "i", "g", "o">>, symbol |-> "INDIGO", full_name |-> <<"I", "n", "t", "e", "r", "G", "l", "o", "b", "e", " ", "A", "v", "i", "a", "t", "i", "o", "n">>],
    [key |-> <<"p", "e", "r", "s", "i", "s", "t", "e", "n", "t", " ", "s", "y", "s", "t", "e", "m", "s">>, symbol |-> "PERSISTENT", full_name |-> <<"P", "e", "r", "s", "i", "s", "t", "e", "n", "t", " ", "S", "y", "s", "t", "e", "m", "s">>],
    [key |-> <<"t", "e", "j", "a", "s", " ", "n", "e", "t", "w", "o", "r", "k", "s">>, symbol |-> "TEJASNET", full_name |-> <<"T", "e", "j", "a", "s", " ", "N", "e", "t", "w", "o", "r", "k", "s">>],
    [key |-> <<"p", "a", "t", "e", "l", " ", "e", "n", "g", "i", "n", "e", "e", "r", "i", "n", "g">>, symbol |-> "PATELENG", full_name |-> <<"P", "a", "t", "e", "l", " ", "E", "n", "g", "i", "n", "e", "e", "r", "i", "n", "g">>]
  >>

sector_to_stocks == <<
    [key |-> <<"b", "a", "n", "k", "i", "n", "g">>, stocks |-> <<
        [symbol |-> "HDFCBANK", company_name |-> <<"H", "D", "F", "C", " ", "B", "a", "n", "k">>, confidence |-> 7500],
        [symbol |-> "ICICIBANK", company_name |-> <<"I", "C", "I", "C", "I", " ", "B", "a", "n", "k">>, confidence |-> 7500],
        [symbol |-> "SBIN", company_name |-> <<"S", "t", "a", "t", "e", " ", "B", "a", "n", "k", " ", "o", "f", " ", "I", "n", "d", "i", "a">>, confidence |-> 7500],
        [symbol |-> "AXISBANK", company_name |-> <<"A", "x", "i", "s", " ", "B", "a", "n", "k">>, confidence |-> 7000],
        [symbol |-> "KOTAKBANK", company_name |-> <<"K", "o", "t", "a", "k", " ", "M", "a", "h", "i", "n", "d", "r", "a", " ", "B", "a", "n", "k">>, confidence |-> 7000]
      >>],
    [key |-> <<"f", "i", "n", "a", "n", "c", "i", "a", "l", " ", "s", "e", "r", "v", "i", "c", "e", "s">>, stocks |-> <<
        [symbol |-> "HDFCBANK", company_name |-> <<"H", "D", "F", "C", " ", "B", "a", "n", "k">>, confidence |-> 7000],
        [symbol |-> "BAJFINANCE", company_name |-> <<"B", "a", "j", "a", "j", " ", "F", "i", "n", "a", "n", "c", "e">>, confidence |-> 7500],
        [symbol |-> "HDFCLIFE", company_name |-> <<"H", "D", "F", "C", " ", "L", "i", "f", "e">>, confidence |-> 7000]
      >>],
    [key |-> <<"i", "t">>, stocks |-> <<
        [symbol |-> "TCS", company_name |-> <<"T", "a", "t", "a", " ", "C", "o", "n", "s", "u", "l", "t", "a", "n", "c", "y", " ", "S", "e", "r", "v", "i", "c", "e", "s">>, confidence |-> 7500],
        [symbol |-> "INFY", company_name |-> <<"I", "n", "f", "o", "s", "y", "s">>, confidence |-> 7500],
        [symbol |-> "WIPRO", company_name |-> <<"W", "i", "p", "r", "o">>, confidence |-> 7000],
        [symbol |-> "TECHM", company_name |-> <<"T", "e", "c", "h", " ", "M", "a", "h", "i", "n", "d", "r", "a">>, confidence |-> 7000],
        [symbol |-> "HCLTECH", company_name |-> <<"H", "C", "L", " ", "T", "e", "c", "h", "n", "o", "l", "o", "g", "i", "e", "s">>, confidence |-> 7000]
      >>],
    [key |-> <<"i", "n", "f", "o", "r", "m", "a", "t", "i", "o", "n", " ", "t", "e", "c", "h", "n", "o", "l", "o", "g", "y">>, stocks |-> <<
        [symbol |-> "TCS", company_name |-> <<"T", "a", "t", "a", " ", "C", "o", "n", "s", "u", "l", "t", "a", "n", "c", "y", " ", "S", "e", "r", "v", "i", "c", "e", "s">>, confidence |-> 7500],
        [symbol |-> "INFY", company_name |-> <<"I", "n", "f", "o", "s", "y", "s">>, confidence |-> 7500],
        [symbol |-> "WIPRO", company_name |-> <<"W", "i", "p", "r", "o">>, confidence |-> 7000]
      >>],
    [key |-> <<"i", "t", " ", "s", "e", "r", "v", "i", "c", "e", "s">>, stocks |-> <<
        [symbol |-> "TCS", company_name |-> <<"T", "a", "t", "a", " ", "C", "o", "n", "s", "u", "l", "t", "a", "n", "c", "y", " ", "S", "e", "r", "v", "i", "c", "e", "s">>, confidence |-> 7500],
        [symbol |-> "INFY", company_name |-> <<"I", "n", "f", "o", "s", "y", "s">>, confidence |-> 7500],
        [symbol |-> "WIPRO", company_name |-> <<"W", "i", "p", "r", "o">>, confidence |-> 7000]
      >>],
    [key |-> <<"a", "u", "t", "o", "m", "o", "b", "i", "l", "e">>, stocks |-> <<
        [symbol |-> "MARUTI", company_name |-> <<"M", "a", "r", "u", "t", "i", " ", "S", "u", "z", "u", "k", "i">>, confidence |-> 7500],
        [symbol |-> "TATAMOTORS", company_name |-> <<"T", "a", "t", "a", " ", "M", "o", "t", "o", "r", "s">>, confidence |-> 7500],
        [symbol |-> "M&M", company_name |-> <<"M", "a", "h", "i", "n", "d", "r", "a", " ", "&", " ", "M", "a", "h", "i", "n", "d", "r", "a">>, confidence |-> 7000]
      >>],
    [key |-> <<"a", "u", "t", "o">>, stocks |-> <<
        [symbol |-> "MARUTI", company_name |-> <<"M", "a", "r", "u", "t", "i", " ", "S", "u", "z", "u", "k", "i">>, confidence |-> 7500],
        [symbol |-> "TATAMOTORS", company_name |-> <<"T", "a", "t", "a", " ", "M", "o", "t", "o", "r", "s">>, confidence |-> 7500]
      >>],
    [key |-> <<"n", "b", "f", "c">>, stocks |-> <<
        [symbol |-> "BAJFINANCE", company_name |-> <<"B", "a", "j", "a", "j", " ", "F", "i", "n", "a", "n", "c", "e">>, confidence |-> 8000]
      >>],
    [key |-> <<"i", "n", "s", "u", "r", "a", "n", "c", "e">>, stocks |-> <<
        [symbol |-> "HDFCLIFE", company_name |-> <<"H", "D", "F", "C", " ", "L", "i", "f", "e">>, confidence |-> 7500]
      >>],
    [key |-> <<"t", "e", "l", "e", "c", "o", "m">>, stocks |-> <<
        [symbol |-> "RELIANCE", company_name |-> <<"R", "e", "l", "i", "a", "n", "c", "e", " ", "I", "n", "d", "u", "s", "t", "r", "i", "e", "s">>, confidence |-> 7000],
        [symbol |-> "BHARTIARTL", company_name |-> <<"B", "h", "a", "r", "t", "i", " ", "A", "i", "r", "t", "e", "l">>, confidence |-> 7500]
      >>],
    [key |-> <<"f", "m", "c", "g">>, stocks |-> <<
        [symbol |-> "ITC", company_name |-> <<"I", "T", "C">>, confidence |-> 7000],
        [symbol |-> "HINDUNILVR", company_name |-> <<"H", "i", "n", "d", "u", "s", "t", "a", "n", " ", "U", "n", "i", "l", "e", "v", "e", "r">>, confidence |-> 7000],
        [symbol |-> "BRITANNIA", company_name |-> <<"B", "r", "i", "t", "a", "n", "n", "i", "a", " ", "I", "n", "d", "u", "s", "t", "r", "i", "e", "s">>, confidence |-> 6500]
      >>]
  >>

\* dict lookup: the index of the entry with this key, 0 when there is none
Lookup(table, k) ==
    IF \E i \in DOMAIN table : table[i].key = k
    THEN CHOOSE i \in DOMAIN table : table[i].key = k
    ELSE 0

SetMin(S) == CHOOSE x \in S : \A y \in S : x <= y

\* A partial match that tests only `key in company_lower`.
map_company_to_stock_OneDirection(company_name) ==
    LET company_lower == Lower(company_name)
        exact   == Lookup(company_to_symbol, company_lower)
        partial == { i \in DOMAIN company_to_symbol :
                       IsSubstr(company_to_symbol[i].key, company_lower) }
    IN  IF exact # 0
        THEN StockImpact(company_to_symbol[exact].symbol, company_to_symbol[exact].full_name,
                         10000, "direct", [text |-> "Direct mention", of |-> company_name])
        ELSE IF partial # {}
        THEN StockImpact(company_to_symbol[SetMin(partial)].symbol,
                         company_to_symbol[SetMin(partial)].full_name,
                         9500, "direct", [text |-> "Partial match", of |-> company_name])
        ELSE StockImpact("UNKNOWN", company_name, 5000, "direct",
                         [text |-> "not in mapping database", of |-> company_name])

\* StockImpactAnalysisAgent.map_company_to_stock
map_company_to_stock(company_name) ==
    LET company_lower == Lower(company_name)
        exact   == Lookup(company_to_symbol, company_lower)
        \* the for loop returns at the first key that matches in either direction
        partial == { i \in DOMAIN company_to_symbol :
                       \/ IsSubstr(company_to_symbol[i].key, company_lower)
                       \/ IsSubstr(company_lower, company_to_symbol[i].key) }
    IN  IF exact # 0
        THEN StockImpact(company_to_symbol[exact].symbol, company_to_symbol[exact].full_name,
                         10000, "direct", [text |-> "Direct mention", of |-> company_name])
        ELSE IF partial # {}
        THEN StockImpact(company_to_symbol[SetMin(partial)].symbol,
                         company_to_symbol[SetMin(partial)].full_name,
                         9500, "direct", [text |-> "Partial match", of |-> company_name])
        ELSE StockImpact("UNKNOWN", company_name, 5000, "direct",
                         [text |-> "not in mapping database", of |-> company_name])

\* the entries of one sector as impacts, confidence = base * factor / 100
SectorImpacts(stocks, factor, impact_type, reasoning) ==
    [ i \in DOMAIN stocks |->
        StockImpact(stocks[i].symbol, stocks[i].company_name,
                    (stocks[i].confidence * factor) \div 100, impact_type, reasoning) ]

\* StockImpactAnalysisAgent.map_sector_to_stocks
map_sector_to_stocks(sector_name) ==
    LET k == Lookup(sector_to_stocks, Lower(sector_name))
    IN  IF k # 0
        THEN SectorImpacts(sector_to_stocks[k].stocks, 100, "sector_wide",
                           [text |-> "Sector-wide news", of |-> sector_name])
        ELSE <<>>

\* A mapping that tests for SEBI before RBI.
map_regulator_to_stocks_SebiFirst(regulator_name) ==
    LET regulator_lower == Lower(regulator_name)
        sector(k) == sector_to_stocks[Lookup(sector_to_stocks, k)].stocks
    IN  IF IsSubstr(<<"s", "e", "b", "i">>, regulator_lower)
        THEN SectorImpacts(sector(<<"f", "i", "n", "a", "n", "c", "i", "a", "l", " ", "s", "e", "r", "v", "i", "c", "e", "s">>),
                           75, "regulatory", [text |-> "SEBI regulatory news", of |-> <<>>])
        ELSE IF \/ IsSubstr(<<"r", "b", "i">>, regulator_lower)
                \/ IsSubstr(<<"r", "e", "s", "e", "r", "v", "e", " ", "b", "a", "n", "k">>, regulator_lower)
        THEN SectorImpacts(sector(<<"b", "a", "n", "k", "i", "n", "g">>), 85, "regulatory",
                           [text |-> "RBI regulatory news", of |-> <<>>])
        ELSE IF \/ IsSubstr(<<"i", "r", "d", "a", "i">>, regulator_lower)
                \/ IsSubstr(<<"i", "n", "s", "u", "r", "a", "n", "c", "e", " ", "r", "e", "g", "u", "l", "a", "t", "o", "r", "y">>, regulator_lower)
        THEN SectorImpacts(sector(<<"i", "n", "s", "u", "r", "a", "n", "c", "e">>),
                           80, "regulatory", [text |-> "IRDAI regulatory news", of |-> <<>>])
        ELSE <<>>

\* StockImpactAnalysisAgent.map_regulator_to_stocks
map_regulator_to_stocks(regulator_name) ==
    LET regulator_lower == Lower(regulator_name)
        sector(k) == sector_to_stocks[Lookup(sector_to_stocks, k)].stocks
    IN  IF \/ IsSubstr(<<"r", "b", "i">>, regulator_lower)
           \/ IsSubstr(<<"r", "e", "s", "e", "r", "v", "e", " ", "b", "a", "n", "k">>,
                       regulator_lower)
        THEN SectorImpacts(sector(<<"b", "a", "n", "k", "i", "n", "g">>), 85, "regulatory",
                           [text |-> "RBI regulatory news", of |-> <<>>])
        ELSE IF IsSubstr(<<"s", "e", "b", "i">>, regulator_lower)
        THEN SectorImpacts(sector(<<"f", "i", "n", "a", "n", "c", "i", "a", "l", " ",
                                    "s", "e", "r", "v", "i", "c", "e", "s">>),
                           75, "regulatory", [text |-> "SEBI regulatory news", of |-> <<>>])
        ELSE IF \/ IsSubstr(<<"i", "r", "d", "a", "i">>, regulator_lower)
                \/ IsSubstr(<<"i", "n", "s", "u", "r", "a", "n", "c", "e", " ",
                              "r", "e", "g", "u", "l", "a", "t", "o", "r", "y">>,
                            regulator_lower)
        THEN SectorImpacts(sector(<<"i", "n", "s", "u", "r", "a", "n", "c", "e">>),
                           80, "regulatory", [text |-> "IRDAI regulatory news", of |-> <<>>])
        ELSE <<>>

\* the impacts of one entity, by entity type (process, lines 287-300)
EntityImpacts(entity) ==
    IF entity.entity_type = "company" THEN << map_company_to_stock(entity.name) >>
    ELSE IF entity.entity_type = "sector" THEN map_sector_to_stocks(entity.name)
    ELSE IF entity.entity_type = "regulator" THEN map_regulator_to_stocks(entity.name)
    ELSE <<>>

\* stock_impacts after the loop over article.entities (lines 282-300)
RECURSIVE MappedImpacts(_)
MappedImpacts(entities) ==
    IF entities = <<>> THEN <<>>
    ELSE EntityImpacts(Head(entities)) \o MappedImpacts(Tail(entities))

\* position of the symbol among the dict's keys, 0 when absent
SymbolIndex(unique, symbol) ==
    IF \E k \in DOMAIN unique : unique[k].symbol = symbol
    THEN CHOOSE k \in DOMAIN unique : unique[k].symbol = symbol
    ELSE 0

\* the dict unique_impacts after the loop over impacts[i..]; a dict keeps the
\* insertion order of its keys, and replacing a value keeps the key's place
RECURSIVE MergeLoop(_, _, _)
MergeLoop(impacts, i, unique) ==
    IF i > Len(impacts) THEN unique
    ELSE LET impact == impacts[i]
             k      == SymbolIndex(unique, impact.symbol)
         IN  MergeLoop(impacts, i + 1,
                 IF k = 0 THEN Append(unique, impact)
                 ELSE IF impact.confidence > unique[k].confidence
                      THEN [unique EXCEPT ![k] = impact]
                      ELSE unique)

\* A merge that replaces on >= (the last of the tied impacts wins).
RECURSIVE MergeLoop_LastOnTie(_, _, _)
MergeLoop_LastOnTie(impacts, i, unique) ==
    IF i > Len(impacts) THEN unique
    ELSE LET impact == impacts[i]
             k      == SymbolIndex(unique, impact.symbol)
         IN  MergeLoop_LastOnTie(impacts, i + 1,
                 IF k = 0 THEN Append(unique, impact)
                 ELSE IF impact.confidence >= unique[k].confidence
                      THEN [unique EXCEPT ![k] = impact]
                      ELSE unique)

\* A merge that never replaces: the first impact of every symbol stays.
RECURSIVE MergeLoop_FirstSeen(_, _, _)
MergeLoop_FirstSeen(impacts, i, unique) ==
    IF i > Len(impacts) THEN unique
    ELSE MergeLoop_FirstSeen(impacts, i + 1,
             IF SymbolIndex(unique, impacts[i].symbol) = 0
             THEN Append(unique, impacts[i])
             ELSE unique)

unique_impacts_FirstSeen(stock_impacts) == MergeLoop_FirstSeen(stock_impacts, 1, <<>>)

unique_impacts_LastOnTie(stock_impacts) == MergeLoop_LastOnTie(stock_impacts, 1, <<>>)

\* StockImpactAnalysisAgent.process, lines 302-312: list(unique_impacts.values())
unique_impacts(stock_impacts) == MergeLoop(stock_impacts, 1, <<>>)

\* A stock agent that also clears the duplicate flag of the article.
StockProcess_ClearsDuplicate(a) ==
    IF a.entities = <<>> THEN a
    ELSE [a EXCEPT !.stock_impacts = unique_impacts(MappedImpacts(a.entities)),
                   !.is_duplicate = FALSE]

\* StockImpactAnalysisAgent.process: the article after the call
StockProcess(a) ==
    IF a.entities = <<>> THEN a
    ELSE [a EXCEPT !.stock_impacts = unique_impacts(MappedImpacts(a.entities))]

(***************************************************************************)
(* StorageIndexingAgent.create_unique_story                                *)
(***************************************************************************)
RECURSIVE AllOf(_, _)
\* field f of the primary followed by field f of every duplicate
AllOf(lists, i) ==
    IF i > Len(lists) THEN <<>> ELSE lists[i] \o AllOf(lists, i + 1)

EntityKey(entity) == <<Lower(entity.name), entity.entity_type>>

\* lines 94-100: keep the first entity of every (name.lower(), type) key
RECURSIVE UniqueEntities(_, _, _)
UniqueEntities(entities, i, unique) ==
    IF i > Len(entities) THEN unique
    ELSE UniqueEntities(entities, i + 1,
             IF \E k \in DOMAIN unique : EntityKey(unique[k]) = EntityKey(entities[i])
             THEN unique
             ELSE Append(unique, entities[i]))

\* A story that keeps every impact of the primary and the duplicates.
story_unique_impacts_NoMerge(all_impacts) == all_impacts

\* lines 107-114 and 121: list(unique_impacts.values())
story_unique_impacts(all_impacts) == MergeLoop(all_impacts, 1, <<>>)

\* lines 93-100
story_unique_entities(all_entities) == UniqueEntities(all_entities, 1, <<>>)

create_unique_story(primary_article, duplicates) ==
    LET all_entities == primary_article.entities
                          \o AllOf([i \in DOMAIN duplicates |-> duplicates[i].entities], 1)
        all_impacts  == primary_article.stock_impacts
                          \o AllOf([i \in DOMAIN duplicates |-> duplicates[i].stock_impacts], 1)
    IN  [ id                 |-> primary_article.id,
          primary_article    |-> primary_article,
          duplicate_articles |-> duplicates,
          all_entities       |-> story_unique_entities(all_entities),
          all_stock_impacts  |-> story_unique_impacts(all_impacts),
          confidence_score   |-> 10000 ]

(***************************************************************************)
(* EntityExtractionAgent.__init__: the three sets of known terms, in the   *)
(* order of the set literals.  A Python set iterates in an order of its    *)
(* own, the same for every iteration of an unchanged set within a run:     *)
(* set_order is that order, chosen once.                                   *)
(***************************************************************************)
known_companies == <<
    <<"h", "d", "f", "c", " ", "b", "a", "n", "k">>,
    <<"i", "c", "i", "c", "i", " ", "b", "a", "n", "k">>,
    <<"s", "b", "i">>,
    <<"a", "x", "i", "s", " ", "b", "a", "n", "k">>,
    <<"k", "o", "t", "a", "k", " ", "m", "a", "h", "i", "n", "d", "r", "a", " ", "b", "a", "n", "k">>,
    <<"t", "c", "s">>,
    <<"i", "n", "f", "o", "s", "y", "s">>,
    <<"w", "i", "p", "r", "o">>,
    <<"t", "e", "c", "h", " ", "m", "a", "h", "i", "n", "d", "r", "a">>,
    <<"h", "c", "l", " ", "t", "e", "c", "h", "n", "o", "l", "o", "g", "i", "e", "s">>,
    <<"r", "e", "l", "i", "a", "n", "c", "e">>,
    <<"r", "e", "l", "i", "a", "n", "c", "e", " ", "i", "n", "d", "u", "s", "t", "r", "i", "e", "s">>,
    <<"r", "e", "l", "i", "a", "n", "c", "e", " ", "j", "i", "o">>,
    <<"b", "a", "j", "a", "j", " ", "f", "i", "n", "a", "n", "c", "e">>,
    <<"b", "a", "j", "a", "j", " ", "a", "u", "t", "o">>,
    <<"m", "a", "r", "u", "t", "i", " ", "s", "u", "z", "u", "k", "i">>,
    <<"t", "a", "t", "a", " ", "m", "o", "t", "o", "r", "s">>,
    <<"m", "a", "h", "i", "n", "d", "r", "a">>,
    <<"s", "u", "n", " ", "p", "h", "a", "r", "m", "a">>,
    <<"d", "r", " ", "r", "e", "d", "d", "y">>,
    <<"c", "i", "p", "l", "a">>,
    <<"i", "t", "c">>,
    <<"h", "u", "l">>,
    <<"b", "r", "i", "t", "a", "n", "n", "i", "a">>,
    <<"n", "e", "s", "t", "l", "e", " ", "i", "n", "d", "i", "a">>,
    <<"t", "e", "j", "a", "s", " ", "n", "e", "t", "w", "o", "r", "k", "s">>,
    <<"p", "e", "r", "s", "i", "s", "t", "e", "n", "t", " ", "s", "y", "s", "t", "e", "m", "s">>,
    <<"a", "d", "i", "t", "y", "a", " ", "b", "i", "r", "l", "a">>,
    <<"p", "a", "t", "e", "l", " ", "e", "n", "g", "i", "n", "e", "e", "r", "i", "n", "g">>,
    <<"h", "d", "f", "c", " ", "l", "i", "f", "e">>,
    <<"h", "d", "f", "c", " ", "l", "i", "f", "e", " ", "i", "n", "s", "u", "r", "a", "n", "c", "e">>,
    <<"i", "n", "d", "i", "g", "o">>,
    <<"a", "i", "r", " ", "i", "n", "d", "i", "a">>
  >>

known_sectors == <<
    <<"b", "a", "n", "k", "i", "n", "g">>,
    <<"f", "i", "n", "a", "n", "c", "i", "a", "l", " ", "s", "e", "r", "v", "i", "c", "e", "s">>,
    <<"i", "n", "s", "u", "r", "a", "n", "c", "e">>,
    <<"n", "b", "f", "c">>,
    <<"i", "n", "f", "o", "r", "m", "a", "t", "i", "o", "n", " ", "t", "e", "c", "h", "n", "o", "l", "o", "g", "y">>,
    <<"i", "t", " ", "s", "e", "r", "v", "i", "c", "e", "s">>,
    <<"s", "o", "f", "t", "w", "a", "r", "e">>,
    <<"a", "u", "t", "o", "m", "o", "b", "i", "l", "e">>,
    <<"a", "u", "t", "o">>,
    <<"e", "v">>,
    <<"e", "l", "e", "c", "t", "r", "i", "c", " ", "v", "e", "h", "i", "c", "l", "e">>,
    <<"p", "h", "a", "r", "m", "a", "c", "e", "u", "t", "i", "c", "a", "l", "s">>,
    <<"p", "h", "a", "r", "m", "a">>,
    <<"h", "e", "a", "l", "t", "h", "c", "a", "r", "e">>,
    <<"f", "m", "c", "g">>,
    <<"c", "o", "n", "s", "u", "m", "e", "r", " ", "g", "o", "o", "d", "s">>,
    <<"t", "e", "l", "e", "c", "o", "m", "m", "u", "n", "i", "c", "a", "t", "i", "o", "n", "s">>,
    <<"t", "e", "l", "e", "c", "o", "m">>,
    <<"a", "v", "i", "a", "t", "i", "o", "n">>,
    <<"a", "i", "r", "l", "i", "n", "e", "s">>,
    <<"r", "e", "a", "l", " ", "e", "s", "t", "a", "t", "e">>,
    <<"i", "n", "f", "r", "a", "s", "t", "r", "u", "c", "t", "u", "r", "e">>
  >>

known_regulators == <<
    <<"r", "b", "i">>,
    <<"r", "e", "s", "e", "r", "v", "e", " ", "b", "a", "n", "k", " ", "o", "f", " ", "i", "n", "d", "i", "a">>,
    <<"r", "e", "s", "e", "r", "v", "e", " ", "b", "a", "n", "k">>,
    <<"s", "e", "b", "i">>,
    <<"s", "e", "c", "u", "r", "i", "t", "i", "e", "s", " ", "a", "n", "d", " ", "e", "x", "c", "h", "a", "n", "g", "e", " ", "b", "o", "a", "r", "d">>,
    <<"i", "r", "d", "a", "i">>,
    <<"i", "n", "s", "u", "r", "a", "n", "c", "e", " ", "r", "e", "g", "u", "l", "a", "t", "o", "r", "y">>,
    <<"g", "o", "v", "e", "r", "n", "m", "e", "n", "t">>,
    <<"m", "i", "n", "i", "s", "t", "r", "y">>
  >>

Reverse(s) == [i \in DOMAIN s |-> s[Len(s) + 1 - i]]

Iterate(terms, order) == IF order = "declared" THEN terms ELSE Reverse(terms)

\* str.title(): a letter is upper-cased after a character that is no letter
\* and lower-cased after a letter
Title(s) ==
    [i \in DOMAIN s |->
        IF i > 1 /\ (IsUpper(s[i - 1]) \/ IsLower(s[i - 1]))
        THEN LowerChar(s[i]) ELSE UpperChar(s[i])]

\* x occurs in y at offset i
OccursAt(x, y, i) == i + Len(x) <= Len(y) /\ \A j \in 1..Len(x) : y[i + j] = x[j]

\* str.count: the non-overlapping occurrences of x in y[i+1..], left to right
RECURSIVE CountFrom(_, _, _)
CountFrom(x, y, i) ==
    IF i + Len(x) > Len(y) THEN 0
    ELSE IF OccursAt(x, y, i) THEN 1 + CountFrom(x, y, i + Len(x))
    ELSE CountFrom(x, y, i + 1)

\* the entities of the terms found in the text, one list per known set
RECURSIVE FoundCompanies(_, _)
FoundCompanies(terms, text_lower) ==
    IF terms = <<>> THEN <<>>
    ELSE (IF IsSubstr(Head(terms), text_lower)
          THEN << Entity(Title(Head(terms)), "company", CountFrom(Head(terms), text_lower, 0),
                         "Mentioned N time(s) in article") >>
          ELSE <<>>) \o FoundCompanies(Tail(terms), text_lower)

RECURSIVE FoundSectors(_, _)
FoundSectors(terms, text_lower) ==
    IF terms = <<>> THEN <<>>
    ELSE (IF IsSubstr(Head(terms), text_lower)
          THEN << Entity(Title(Head(terms)), "sector", 1, "Industry/sector mention") >>
          ELSE <<>>) \o FoundSectors(Tail(terms), text_lower)

RECURSIVE FoundRegulators(_, _)
FoundRegulators(terms, text_lower) ==
    IF terms = <<>> THEN <<>>
    ELSE (IF IsSubstr(Head(terms), text_lower)
          THEN << Entity(IF Len(Head(terms)) <= 5 THEN Upper(Head(terms))
                                                  ELSE Title(Head(terms)),
                         "regulator", 1, "Regulatory body") >>
          ELSE <<>>) \o FoundRegulators(Tail(terms), text_lower)

\* EntityExtractionAgent.extract_entities_simple
extract_entities_simple(a, order) ==
    LET text_lower == Lower(a.title \o <<" ">> \o a.content)
        entities   == FoundCompanies(Iterate(known_companies, order), text_lower)
                        \o FoundSectors(Iterate(known_sectors, order), text_lower)
                        \o FoundRegulators(Iterate(known_regulators, order), text_lower)
    IN  UniqueEntities(entities, 1, <<>>)

(***************************************************************************)
(* The external extractor, as extract_entities_llm sees it: the credential *)
(* of the environment, the step of the call that raises (if any), and what *)
(* json.loads makes of the cleaned response text.  A JSON value is kept    *)
(* parsed; the text of the response is not modelled.                       *)
(***************************************************************************)
Placeholder == "your_gemini_api_key_here"

\* json.loads(response_text): a JSONDecodeError, a JSON array, or an object
\* whose members are absent, null, a string, or a list of strings and arrays
Absent == [kind |-> "absent"]
Null   == [kind |-> "null"]
JsonString(chars) == [kind |-> "string", chars |-> chars]
JsonList(items)   == [kind |-> "list", items |-> items]
Str(chars) == [str |-> TRUE, chars |-> chars]
Nested     == [str |-> FALSE, chars |-> <<>>]   \* an array where a name is expected

JsonObject(companies, sectors, regulators, people, events) ==
    [kind |-> "object", companies |-> companies, sectors |-> sectors,
     regulators |-> regulators, people |-> people, events |-> events]

\* for x in data.get(key, []): Entity(name=x, ...).  Iterating null raises a
\* TypeError, a name that is no string a ValidationError; a string is iterated
\* character by character.
Converted(member, entity_type, context) ==
    IF member.kind = "absent" THEN [raised |-> FALSE, entities |-> <<>>]
    ELSE IF member.kind = "null" THEN [raised |-> TRUE, entities |-> <<>>]
    ELSE IF member.kind = "string"
    THEN [raised |-> FALSE,
          entities |-> [i \in DOMAIN member.chars |->
                           Entity(<<member.chars[i]>>, entity_type, 1, context)]]
    ELSE IF \E i \in DOMAIN member.items : ~member.items[i].str
    THEN [raised |-> TRUE, entities |-> <<>>]
    ELSE [raised |-> FALSE,
          entities |-> [i \in DOMAIN member.items |->
                           Entity(member.items[i].chars, entity_type, 1, context)]]

\* the body of the try block (lines 143-236): what it returns, or that it raised
LlmTry(a, llm, order) ==
    IF llm.fault = "import" THEN [raised |-> TRUE, entities |-> <<>>]
    ELSE IF llm.api_key = None \/ llm.api_key = "" \/ llm.api_key = Placeholder
    THEN [raised |-> FALSE, entities |-> extract_entities_simple(a, order)]
    ELSE IF llm.fault # "none" THEN [raised |-> TRUE, entities |-> <<>>]
    ELSE IF llm.parsed.kind # "object" THEN [raised |-> TRUE, entities |-> <<>>]
    ELSE LET c == Converted(llm.parsed.companies, "company", "Company mention")
             s == Converted(llm.parsed.sectors, "sector", "Sector/Industry")
             r == Converted(llm.parsed.regulators, "regulator", "Regulatory body")
             p == Converted(llm.parsed.people, "person", "Person mentioned")
             e == Converted(llm.parsed.events, "event", "Significant event")
         IN  IF c.raised \/ s.raised \/ r.raised \/ p.raised \/ e.raised
             THEN [raised |-> TRUE, entities |-> <<>>]
             ELSE [raised |-> FALSE,
                   entities |-> c.entities \o s.entities \o r.entities
                                  \o p.entities \o e.entities]

\* An extractor that gives up with no entities when the try block raises.
extract_entities_llm_EmptyOnError(a, llm, order) ==
    LET t == LlmTry(a, llm, order)
    IN  [raised |-> FALSE, entities |-> t.entities]

\* EntityExtractionAgent.extract_entities_llm: except Exception -> the fallback
extract_entities_llm(a, llm, order) ==
    LET t == LlmTry(a, llm, order)
    IN  IF t.raised
        THEN [raised |-> FALSE, entities |-> extract_entities_simple(a, order)]
        ELSE [raised |-> FALSE, entities |-> t.entities]

\* EntityExtractionAgent.process: the article after the call, or that it raised
EntityProcess(a, llm, order) ==
    LET r == extract_entities_llm(a, llm, order)
    IN  IF r.raised THEN [raised |-> TRUE, article |-> a]
        ELSE [raised |-> FALSE, article |-> [a EXCEPT !.entities = r.entities]]

(***************************************************************************)
(* The deduplication agent as a state machine.                             *)
(***************************************************************************)
Init ==
    /\ RegulatorIdle /\ PipelineIdle /\ QueryIdle
    /\ threshold \in { Float(t[1], t[2]) : t \in Thresholds }
    /\ processed_articles = <<>>
    /\ article = NoArticle
    /\ outcome = "none"
    /\ calls = 0
    /\ company = <<>>
    /\ mapped = NoImpact
    /\ story = NoStory
    /\ extractor = NoLlm
    /\ set_order = "declared"

\* The caller builds a NewsArticle; the ingestion agent may or may not have
\* given it an embedding.
NewArticle ==
    /\ Len(processed_articles) < MaxSeen
    /\ article # NoArticle => outcome # "none"
    /\ \E id \in Ids, emb \in Embeddings \cup {NoEmbedding} :
           article' = NewsArticle(id, <<"n", "e", "w", "s">>, <<>>, emb)
    /\ outcome' = "none"
    /\ UNCHANGED <<regulatorVars, pipelineVars, queryVars>>
    /\ UNCHANGED <<threshold, processed_articles, calls, company, mapped, story, extractor, set_order>>

\* dedup_agent.process(article)
Process ==
    /\ article # NoArticle
    /\ outcome = "none"
    /\ LET r == DedupProcess(article, threshold, processed_articles)
       IN  /\ article' = r.article
           /\ processed_articles' = r.seen
           /\ outcome' = IF r.raised THEN "error" ELSE "ok"
           /\ calls' = IF r.raised THEN calls ELSE calls + 1
    /\ UNCHANGED <<regulatorVars, pipelineVars, queryVars>>
    /\ UNCHANGED <<threshold, company, mapped, story, extractor, set_order>>

Next == NewArticle \/ Process

Spec == Init /\ [][Next]_vars

(***************************************************************************)
(* map_company_to_stock applied to one company name.                       *)
(***************************************************************************)
\* names as the external extractor, the fallback matcher or a caller give them
GivenNames ==
    { <<"H", "D", "F", "C", " ", "B", "a", "n", "k">>,
      <<"H", "d", "f", "c", " ", "B", "a", "n", "k", " ", "L", "t", "d">>,
      <<"K", "o", "t", "a", "k", " ", "M", "a", "h", "i", "n", "d", "r", "a", " ",
        "B", "a", "n", "k">>,
      <<"T", "e", "c", "h", " ", "M", "a", "h", "i", "n", "d", "r", "a">>,
      <<"R", "e", "l", "i", "a", "n", "c", "e", " ", "J", "i", "o">>,
      <<"S", "u", "n", " ", "P", "h", "a", "r", "m", "a">>,
      <<"B", "a", "n", "k">>,
      <<"Z", "o", "m", "a", "t", "o">> }

\* every string of at most MaxNameLen of these characters ("itc" is a key)
NameAlphabet == {"i", "t", "c", "T"}
GeneratedNames == UNION { [1..n -> NameAlphabet] : n \in 0..MaxNameLen }

\* the names the fallback matcher emits: the known company terms, title-cased
FallbackNames == { Title(known_companies[i]) : i \in DOMAIN known_companies }

CompanyNames == GivenNames \cup GeneratedNames \cup FallbackNames

InitCompany ==
    /\ RegulatorIdle /\ PipelineIdle /\ QueryIdle
    /\ threshold = Float(17, 20)
    /\ processed_articles = <<>>
    /\ article = NoArticle
    /\ outcome = "none"
    /\ calls = 0
    /\ company \in CompanyNames
    /\ mapped = NoImpact
    /\ story = NoStory
    /\ extractor = NoLlm
    /\ set_order = "declared"

\* stock_agent.map_company_to_stock(company_name)
MapCompany ==
    /\ mapped = NoImpact
    /\ mapped' = map_company_to_stock(company)
    /\ UNCHANGED <<regulatorVars, pipelineVars, queryVars>>
    /\ UNCHANGED <<threshold, processed_articles, article, outcome, calls, company, story,
                   extractor, set_order>>

NextCompany == MapCompany

SpecCompany == InitCompany /\ [][NextCompany]_vars

(***************************************************************************)
(* The stock impact agent on one article, and create_unique_story on the   *)
(* article and a list of duplicates.                                       *)
(***************************************************************************)
\* entities as the entity extraction agent gives them
EntityPool ==
    { Entity(<<"H", "D", "F", "C", " ", "B", "a", "n", "k">>, "company", 1, "Company mention"),
      Entity(<<"H", "d", "f", "c", " ", "B", "a", "n", "k">>, "company", 2,
             "Mentioned 2 time(s) in article"),
      Entity(<<"H", "D", "F", "C", " ", "B", "a", "n", "k", " ", "L", "t", "d">>, "company", 1,
             "Company mention"),
      Entity(<<"Z", "o", "m", "a", "t", "o">>, "company", 1, "Company mention"),
      Entity(<<"B", "a", "n", "k", "i", "n", "g">>, "sector", 1, "Industry/sector mention"),
      Entity(<<"F", "i", "n", "a", "n", "c", "i", "a", "l", " ", "S", "e", "r", "v", "i", "c",
               "e", "s">>, "sector", 1, "Industry/sector mention"),
      Entity(<<"R", "B", "I">>, "regulator", 1, "Regulatory body"),
      Entity(<<"S", "E", "B", "I">>, "regulator", 1, "Regulatory body"),
      Entity(<<"D", "i", "v", "i", "d", "e", "n", "d">>, "event", 1, "Significant event") }

EntityLists == UNION { [1..n -> EntityPool] : n \in 0..MaxEntities }

\* an article after entity extraction (main.py, lines 178-180)
ExtractedArticle(id, entities) ==
    [NewsArticle(id, <<"n", "e", "w", "s">>, <<>>, <<1, 1>>) EXCEPT !.entities = entities]

\* a duplicate after the whole pipeline (main.py, lines 242-245)
DuplicateArticle(id, entities) ==
    [StockProcess(ExtractedArticle(id, entities)) EXCEPT !.is_duplicate = TRUE,
                                                         !.duplicate_of = "a1"]

DuplicatePool ==
    { DuplicateArticle("a2", <<>>),
      DuplicateArticle("a2", << Entity(<<"H", "d", "f", "c", " ", "B", "a", "n", "k">>,
                                       "company", 1, "Company mention") >>),
      DuplicateArticle("a2", << Entity(<<"B", "a", "n", "k", "i", "n", "g">>, "sector", 1,
                                       "Sector/Industry"),
                                Entity(<<"H", "D", "F", "C", " ", "B", "a", "n", "k">>,
                                       "company", 1, "Company mention") >>),
      DuplicateArticle("a2", << Entity(<<"R", "B", "I">>, "regulator", 1,
                                       "Regulatory body") >>) }

DuplicateLists == UNION { [1..n -> DuplicatePool] : n \in 0..MaxDuplicates }

InitImpact ==
    /\ RegulatorIdle /\ PipelineIdle /\ QueryIdle
    /\ threshold = Float(17, 20)
    /\ processed_articles = <<>>
    /\ article = NoArticle
    /\ outcome = "none"
    /\ calls = 0
    /\ company = <<>>
    /\ mapped = NoImpact
    /\ story = NoStory
    /\ extractor = NoLlm
    /\ set_order = "declared"

\* the article reaches the stock impact agent with its entities (the agent
\* keeps nothing from one article to the next: one article per run)
ExtractedEntities ==
    /\ article = NoArticle
    /\ \E entities \in EntityLists : article' = ExtractedArticle("a1", entities)
    /\ outcome' = "none"
    /\ story' = NoStory
    /\ UNCHANGED <<regulatorVars, pipelineVars, queryVars>>
    /\ UNCHANGED <<threshold, processed_articles, calls, company, mapped, extractor, set_order>>

\* stock_agent.process(article)
StockImpactProcess ==
    /\ article # NoArticle
    /\ outcome = "none"
    /\ article' = StockProcess(article)
    /\ outcome' = "ok"
    /\ UNCHANGED <<regulatorVars, pipelineVars, queryVars>>
    /\ UNCHANGED <<threshold, processed_articles, calls, company, mapped, story, extractor, set_order>>

\* storage_agent.create_unique_story(article, duplicates)
CreateUniqueStory ==
    /\ outcome = "ok"
    /\ story = NoStory
    /\ \E duplicates \in DuplicateLists : story' = create_unique_story(article, duplicates)
    /\ UNCHANGED <<regulatorVars, pipelineVars, queryVars>>
    /\ UNCHANGED <<threshold, processed_articles, article, outcome, calls, company, mapped,
                   extractor, set_order>>

NextImpact == ExtractedEntities \/ StockImpactProcess \/ CreateUniqueStory

SpecImpact == InitImpact /\ [][NextImpact]_vars

\* the step just taken is a call of DeduplicationAgent.process
ProcessStep == outcome = "none" /\ outcome' # "none"

Similarity(a, b) == get_similarity(a.embedding, b.embedding)

(***************************************************************************)
(* C1.  From an empty seen list, process(A) then process(B): when          *)
(* similarity(A,B) >= threshold, B is a duplicate of A.id and A is not a   *)
(* duplicate; when similarity(A,B) < threshold, both are unique with       *)
(* duplicate_of = None.  A and B are the first two entries of the seen     *)
(* list.                                                                   *)
(***************************************************************************)
C1_SecondSeenVerdict ==
    Len(processed_articles) >= 2 =>
        LET A == processed_articles[1]
            B == processed_articles[2]
        IN  /\ FloatGE(Similarity(A, B), threshold) =>
                  /\ B.is_duplicate /\ B.duplicate_of = A.id
                  /\ ~A.is_duplicate
            /\ FloatLT(Similarity(A, B), threshold) =>
                  /\ ~A.is_duplicate /\ A.duplicate_of = None
                  /\ ~B.is_duplicate /\ B.duplicate_of = None

\* C1 restricted to thresholds above 0 (holds; shows what C1 fails on).
C1_PositiveThreshold ==
    FloatGT(threshold, Float(0, 1)) => C1_SecondSeenVerdict

(***************************************************************************)
(* C2.  Every recorded article has is_duplicate = TRUE iff its             *)
(* duplicate_of is set, for every threshold in [0,1].                      *)
(***************************************************************************)
C2_FlagIffDuplicateOf ==
    \A i \in 1..Len(processed_articles) :
        processed_articles[i].is_duplicate <=> processed_articles[i].duplicate_of # None

(***************************************************************************)
(* C3.  The duplicate_of of every recorded duplicate is the id of a        *)
(* recorded article that is not itself a duplicate (no chains).  Stated    *)
(* for the thresholds above 0 and the duplicates whose duplicate_of is     *)
(* set, so that it is chaining, and not the missing pointer of C2, that    *)
(* refutes it.                                                             *)
(***************************************************************************)
C3_NoDuplicateChain ==
    FloatGT(threshold, Float(0, 1)) =>
    \A i \in 1..Len(processed_articles) :
        (processed_articles[i].is_duplicate /\ processed_articles[i].duplicate_of # None) =>
            \E j \in 1..Len(processed_articles) :
                /\ processed_articles[j].id = processed_articles[i].duplicate_of
                /\ ~processed_articles[j].is_duplicate

(***************************************************************************)
(* C4.  A process call on an article with an embedding returns and appends *)
(* exactly that article (with its verdict) at the end of the seen list; no *)
(* step removes, replaces or reorders an earlier entry; the length of the  *)
(* seen list is the number of calls that returned.                         *)
(***************************************************************************)
C4_SeenAppendOnly ==
    [][ /\ (ProcessStep /\ article.embedding # NoEmbedding) =>
              /\ outcome' = "ok"
              /\ processed_articles' = Append(processed_articles, article')
              /\ article'.id = article.id
              /\ article'.embedding = article.embedding
        /\ Len(processed_articles') >= Len(processed_articles)
        /\ \A i \in 1..Len(processed_articles) :
              processed_articles'[i] = processed_articles[i]
        /\ Len(processed_articles') = calls' ]_vars

\* a duplicate verdict was recorded behind the article it duplicates
C4_Witness ==
    /\ outcome = "ok"
    /\ Len(processed_articles) >= 2
    /\ processed_articles[Len(processed_articles)].is_duplicate
    /\ processed_articles[Len(processed_articles)] = article

(***************************************************************************)
(* C5.  process on an article without an embedding raises in every state,  *)
(* leaves the seen list as it was and does not touch the article.          *)
(***************************************************************************)
C5_MissingEmbeddingRaises ==
    [][ (ProcessStep /\ article.embedding = NoEmbedding) =>
            /\ outcome' = "error"
            /\ processed_articles' = processed_articles
            /\ article' = article
            /\ calls' = calls ]_vars

\* the call raised on an empty seen list
C5_Witness ==
    /\ outcome = "error"
    /\ article.embedding = NoEmbedding
    /\ processed_articles = <<>>

(***************************************************************************)
(* The entity extraction agent on one article, and create_unique_story on  *)
(* the article and a list of duplicates.                                   *)
(***************************************************************************)
Titles ==
    { <<"H", "D", "F", "C", " ", "B", "a", "n", "k", " ", "d", "i", "v", "i", "d", "e", "n", "d">>,
      <<"R", "B", "I", " ", "r", "a", "t", "e", " ", "h", "i", "k", "e">>,
      <<"I", "T", " ", "r", "e", "v", "e", "n", "u", "e">>,
      <<"R", "e", "l", "i", "a", "n", "c", "e", " ", "I", "n", "d", "u", "s", "t", "r", "i",
        "e", "s">> }

Contents ==
    { <<>>,
      <<"h", "d", "f", "c", " ", "b", "a", "n", "k", " ", "a", "n", "d", " ",
        "H", "D", "F", "C", " ", "L", "i", "f", "e">>,
      <<"b", "a", "n", "k", "i", "n", "g", " ", "s", "e", "c", "t", "o", "r">> }

HdfcBank == <<"H", "D", "F", "C", " ", "B", "a", "n", "k">>

\* what json.loads returns for the responses considered
ParsedResponses ==
    { [kind |-> "JSONDecodeError"],
      [kind |-> "array"],
      JsonObject(Absent, Absent, Absent, Absent, Absent),
      JsonObject(JsonList(<<Str(HdfcBank), Str(HdfcBank)>>), Absent, Absent, Absent, Absent),
      JsonObject(JsonList(<<Str(HdfcBank), Str(Lower(HdfcBank))>>),
                 JsonList(<<Str(<<"B", "a", "n", "k", "i", "n", "g">>)>>),
                 Absent, Absent, Absent),
      JsonObject(JsonList(<<Str(<<"T", "C", "S">>)>>), JsonList(<<>>),
                 JsonList(<<Str(<<"R", "B", "I">>)>>),
                 JsonList(<<Str(<<"D", "a", "s">>)>>),
                 JsonList(<<Str(<<"D", "i", "v", "i", "d", "e", "n", "d">>)>>)),
      JsonObject(Null, Absent, Absent, Absent, Absent),
      JsonObject(JsonList(<<Str(HdfcBank)>>), Absent, Absent, JsonList(<<Nested>>), Absent),
      JsonObject(JsonString(<<"T", "C", "S">>), Absent, Absent, Absent, Absent) }

ApiKeys == { None, "", Placeholder, "key" }

\* the step that raises: the import, generate_content (or configure), response.text
Faults == { "none", "import", "generate_content", "response.text" }

LlmBehaviours ==
    { [api_key |-> k, fault |-> f, parsed |-> [kind |-> "JSONDecodeError"]] :
          k \in ApiKeys, f \in Faults }
      \cup { [api_key |-> "key", fault |-> "none", parsed |-> p] : p \in ParsedResponses }

InitEntity ==
    /\ RegulatorIdle /\ PipelineIdle /\ QueryIdle
    /\ threshold = Float(17, 20)
    /\ processed_articles = <<>>
    /\ article = NoArticle
    /\ outcome = "none"
    /\ calls = 0
    /\ company = <<>>
    /\ mapped = NoImpact
    /\ story = NoStory
    /\ extractor = NoLlm
    /\ set_order \in {"declared", "reversed"}

\* a submitted article reaches the entity extraction agent
Submitted ==
    /\ article = NoArticle
    /\ \E title \in Titles, content \in Contents :
           article' = NewsArticle("a1", title, content, <<1, 1>>)
    /\ UNCHANGED <<regulatorVars, pipelineVars, queryVars>>
    /\ UNCHANGED <<threshold, processed_articles, outcome, calls, company, mapped, story,
                   extractor, set_order>>

\* entity_agent.process(article), the external extractor behaving as extractor'
EntityExtractionProcess ==
    /\ article # NoArticle
    /\ outcome = "none"
    /\ \E behaviour \in LlmBehaviours :
           LET r == EntityProcess(article, behaviour, set_order)
           IN  /\ extractor' = behaviour
               /\ article' = r.article
               /\ outcome' = IF r.raised THEN "error" ELSE "ok"
    /\ UNCHANGED <<regulatorVars, pipelineVars, queryVars>>
    /\ UNCHANGED <<threshold, processed_articles, calls, company, mapped, story, set_order>>

NextEntity == Submitted \/ EntityExtractionProcess \/ CreateUniqueStory

SpecEntity == InitEntity /\ [][NextEntity]_vars

(***************************************************************************)
(* C6.  map_company_to_stock returns one direct impact for every name:     *)
(* confidence 1.0 and the table's symbol when the lower-cased name is a    *)
(* key; else 0.95 when a key is a substring of the name or the name of a   *)
(* key; else symbol UNKNOWN with confidence 0.50.                          *)
(***************************************************************************)
IsKey(n) == \E i \in DOMAIN company_to_symbol : company_to_symbol[i].key = n

PartiallyMatches(n) ==
    \E i \in DOMAIN company_to_symbol :
        IsSubstr(company_to_symbol[i].key, n) \/ IsSubstr(n, company_to_symbol[i].key)

IsBest(inputs, i) ==
    \A j \in DOMAIN inputs :
        inputs[j].symbol = inputs[i].symbol =>
            \/ inputs[j].confidence < inputs[i].confidence
            \/ inputs[j].confidence = inputs[i].confidence /\ j >= i

KeepsBest(inputs, result) ==
    /\ \A i \in DOMAIN inputs :
          IsBest(inputs, i) =>
              Cardinality({ r \in DOMAIN result : result[r] = inputs[i] }) = 1
    /\ \A r \in DOMAIN result :
          \E i \in DOMAIN inputs : IsBest(inputs, i) /\ result[r] = inputs[i]

\* the input of the story's merge: the primary's impacts, then the duplicates'
StoryImpactInputs ==
    story.primary_article.stock_impacts
      \o AllOf([i \in DOMAIN story.duplicate_articles |->
                  story.duplicate_articles[i].stock_impacts], 1)

C7_MergeKeepsHighestFirst ==
    /\ (outcome = "ok" /\ article.entities # <<>>) =>
          KeepsBest(MappedImpacts(article.entities), article.stock_impacts)
    /\ story # NoStory => KeepsBest(StoryImpactInputs, story.all_stock_impacts)

\* two different impacts tie on the highest confidence of a symbol
HasTie(inputs) ==
    \E i, j \in DOMAIN inputs :
        /\ i < j /\ IsBest(inputs, i)
        /\ inputs[j].symbol = inputs[i].symbol
        /\ inputs[j].confidence = inputs[i].confidence
        /\ inputs[j] # inputs[i]

\* a later impact has a higher confidence than an earlier one of its symbol
HasReplacement(inputs) ==
    \E i, j \in DOMAIN inputs :
        /\ i < j
        /\ inputs[j].symbol = inputs[i].symbol
        /\ inputs[j].confidence > inputs[i].confidence

C7_Witness ==
    /\ outcome = "ok"
    /\ HasTie(MappedImpacts(article.entities))
    /\ story # NoStory
    /\ HasTie(StoryImpactInputs)
    /\ HasReplacement(StoryImpactInputs)

(***************************************************************************)
(* C8.  After the stock impact agent no two entries of                     *)
(* article.stock_impacts share a symbol, and no two entries of a story's   *)
(* all_stock_impacts share a symbol.                                       *)
(***************************************************************************)
NoSharedSymbol(impacts) ==
    \A i, j \in DOMAIN impacts : impacts[i].symbol = impacts[j].symbol => i = j

C8_SymbolsUnique ==
    /\ outcome = "ok" => NoSharedSymbol(article.stock_impacts)
    /\ story # NoStory => NoSharedSymbol(story.all_stock_impacts)

\* both merges had a symbol more than once in their input
C8_Witness ==
    /\ outcome = "ok"
    /\ ~NoSharedSymbol(MappedImpacts(article.entities))
    /\ story # NoStory
    /\ ~NoSharedSymbol(StoryImpactInputs)
    /\ Len(story.all_stock_impacts) > 1

(***************************************************************************)
(* C9.  No two entities of article.entities after the entity extraction   *)
(* agent (external extractor or fallback), and no two entities of a        *)
(* story's all_entities, share the key (lower-cased name, type).           *)
(***************************************************************************)
KeysUnique(entities) ==
    \A i, j \in DOMAIN entities : EntityKey(entities[i]) = EntityKey(entities[j]) => i = j

C9_EntityKeysUnique ==
    /\ outcome = "ok" => KeysUnique(article.entities)
    /\ story # NoStory => KeysUnique(story.all_entities)

\* the entities came from the fallback matcher
FellBack == extractor # NoLlm /\ LlmTry(article, extractor, set_order).raised

\* C9 without the external extractor's own entities (holds): the fallback
\* path and the stories.
C9_FallbackAndStoryKeysUnique ==
    /\ (outcome = "ok" /\ FellBack) => KeysUnique(article.entities)
    /\ story # NoStory => KeysUnique(story.all_entities)

(***************************************************************************)
(* C10.  When the external extractor fails (credential missing or the      *)
(* placeholder, a response that json.loads cannot turn into the expected   *)
(* object, an exception while calling or converting), article.entities is  *)
(* exactly extract_entities_simple(article) and process returns.           *)
(***************************************************************************)
NoCredential == extractor.api_key \in {None, "", Placeholder}

CallRaised == extractor.fault # "none"

NotAnObject == extractor.parsed.kind # "object"

\* a member that cannot be iterated into names: null, or a list holding an array
BadMember(member) ==
    \/ member.kind = "null"
    \/ member.kind = "list" /\ \E i \in DOMAIN member.items : ~member.items[i].str

ConversionRaised ==
    /\ extractor.parsed.kind = "object"
    /\ \/ BadMember(extractor.parsed.companies)
       \/ BadMember(extractor.parsed.sectors)
       \/ BadMember(extractor.parsed.regulators)
       \/ BadMember(extractor.parsed.people)
       \/ BadMember(extractor.parsed.events)

ExtractorFailed ==
    extractor # NoLlm /\ (NoCredential \/ CallRaised \/ NotAnObject \/ ConversionRaised)

C10_FailureFallsBack ==
    ExtractorFailed =>
        /\ outcome = "ok"
        /\ article.entities = extract_entities_simple(article, set_order)

\* with a credential and a response, the conversion raised and the fallback
\* found entities in the text
C10_Witness ==
    /\ extractor # NoLlm
    /\ ~NoCredential /\ ~CallRaised /\ ConversionRaised
    /\ outcome = "ok"
    /\ Len(article.entities) >= 2

(***************************************************************************)
(* map_regulator_to_stocks applied to one regulator name.                  *)
(***************************************************************************)
\* words regulator names are made of ("Rb" followed by "IRDAI" holds "rbi")
RegulatorTokens ==
    { <<"R", "B", "I">>,
      <<"R", "e", "s", "e", "r", "v", "e", " ", "B", "a", "n", "k">>,
      <<"S", "E", "B", "I">>,
      <<"S", "e", "b", "i">>,
      <<"I", "R", "D", "A", "I">>,
      <<"I", "n", "s", "u", "r", "a", "n", "c", "e", " ", "R", "e", "g", "u", "l", "a", "t", "o", "r", "y">>,
      <<"T", "R", "A", "I">>,
      <<"R", "b">>,
      <<" ", "o", "f", " ", "I", "n", "d", "i", "a">> }

RegulatorNames ==
    { AllOf(tokens, 1) : tokens \in UNION { [1..n -> RegulatorTokens] : n \in 0..MaxTokens } }

InitRegulator ==
    /\ threshold = Float(17, 20)
    /\ processed_articles = <<>>
    /\ article = NoArticle
    /\ outcome = "none"
    /\ calls = 0
    /\ company = <<>>
    /\ mapped = NoImpact
    /\ story = NoStory
    /\ extractor = NoLlm
    /\ set_order = "declared"
    /\ regulator \in RegulatorNames
    /\ reg_impacts = <<>>
    /\ PipelineIdle /\ QueryIdle

\* stock_agent.map_regulator_to_stocks(regulator_name)
MapRegulator ==
    /\ outcome = "none"
    /\ reg_impacts' = map_regulator_to_stocks(regulator)
    /\ outcome' = "ok"
    /\ UNCHANGED <<threshold, processed_articles, article, calls, company, mapped, story,
                   extractor, set_order, regulator, pipelineVars, queryVars>>

NextRegulator == MapRegulator

SpecRegulator == InitRegulator /\ [][NextRegulator]_vars

\* the entries of one sector table, as regulatory impacts at pct percent
IsScaledTable(list, key, pct) ==
    LET stocks == sector_to_stocks[Lookup(sector_to_stocks, key)].stocks
    IN  /\ Len(list) = Len(stocks)
        /\ \A i \in DOMAIN stocks :
              /\ list[i].symbol = stocks[i].symbol
              /\ list[i].company_name = stocks[i].company_name
              /\ list[i].confidence * 100 = stocks[i].confidence * pct
              /\ list[i].impact_type = "regulatory"

RegulatorHas(word) == IsSubstr(word, Lower(regulator))

(***************************************************************************)
(* C11.  map_regulator_to_stocks returns regulatory impacts from exactly   *)
(* one sector table: banking at 0.85 of the base confidence when the       *)
(* lower-cased name contains "rbi" or "reserve bank"; otherwise financial  *)
(* services at 0.75 when it contains "sebi"; otherwise insurance at 0.80   *)
(* when it contains "irdai" or "insurance regulatory"; otherwise nothing.  *)
(***************************************************************************)
C11_RegulatorPrecedence ==
    outcome = "ok" =>
        IF RegulatorHas(<<"r", "b", "i">>) \/ RegulatorHas(<<"r", "e", "s", "e", "r", "v", "e", " ", "b", "a", "n", "k">>)
        THEN IsScaledTable(reg_impacts, <<"b", "a", "n", "k", "i", "n", "g">>, 85)
        ELSE IF RegulatorHas(<<"s", "e", "b", "i">>)
        THEN IsScaledTable(reg_impacts, <<"f", "i", "n", "a", "n", "c", "i", "a", "l", " ", "s", "e", "r", "v", "i", "c", "e", "s">>, 75)
        ELSE IF RegulatorHas(<<"i", "r", "d", "a", "i">>) \/ RegulatorHas(<<"i", "n", "s", "u", "r", "a", "n", "c", "e", " ", "r", "e", "g", "u", "l", "a", "t", "o", "r", "y">>)
        THEN IsScaledTable(reg_impacts, <<"i", "n", "s", "u", "r", "a", "n", "c", "e">>, 80)
        ELSE reg_impacts = <<>>

\* a name holding both "sebi" and "rbi" was mapped to the banking table
C11_Witness ==
    /\ outcome = "ok"
    /\ RegulatorHas(<<"s", "e", "b", "i">>) /\ RegulatorHas(<<"r", "b", "i">>)
    /\ Len(reg_impacts) = 5
    /\ reg_impacts[1].confidence = 6375

\* entity i of the article is a company that the table maps to a symbol
MapsToSymbol(i) ==
    /\ article.entities[i].entity_type = "company"
    /\ \/ IsKey(Lower(article.entities[i].name))
       \/ PartiallyMatches(Lower(article.entities[i].name))

DirectSymbol(i) == map_company_to_stock(article.entities[i].name).symbol

\* the symbols some company entity of the article maps to
DirectSymbols == { DirectSymbol(i) : i \in { j \in DOMAIN article.entities : MapsToSymbol(j) } }

\* the symbols the sector and regulator entities of the article map to
SectorSymbols ==
    UNION { { EntityImpacts(article.entities[i])[k].symbol :
                k \in DOMAIN EntityImpacts(article.entities[i]) } :
            i \in { j \in DOMAIN article.entities :
                      article.entities[j].entity_type \in {"sector", "regulator"} } }

(***************************************************************************)
(* C12.  After the stock impact agent, a symbol that a company entity of   *)
(* the article maps to (exactly or by substring) has one entry, of type    *)
(* direct and confidence 1.0 or 0.95, also when a sector or regulator      *)
(* entity maps to the same symbol, in either entity order; the other       *)
(* symbols of that sector keep the type sector_wide or regulatory.         *)
(***************************************************************************)
C12_DirectBeatsSector ==
    (outcome = "ok" /\ article.entities # <<>>) =>
        /\ \A S \in DirectSymbols :
              /\ \E k \in DOMAIN article.stock_impacts : article.stock_impacts[k].symbol = S
              /\ \A k \in DOMAIN article.stock_impacts :
                    article.stock_impacts[k].symbol = S =>
                        /\ article.stock_impacts[k].impact_type = "direct"
                        /\ article.stock_impacts[k].confidence \in {10000, 9500}
        /\ \A S \in SectorSymbols \ DirectSymbols :
              /\ \E k \in DOMAIN article.stock_impacts : article.stock_impacts[k].symbol = S
              /\ \A k \in DOMAIN article.stock_impacts :
                    article.stock_impacts[k].symbol = S =>
                        article.stock_impacts[k].impact_type \in {"sector_wide", "regulatory"}

\* a sector entity placed before a partially matched company of that sector
C12_Witness ==
    /\ outcome = "ok"
    /\ Len(article.entities) = 2
    /\ article.entities[1].entity_type = "sector"
    /\ MapsToSymbol(2)
    /\ ~IsKey(Lower(article.entities[2].name))
    /\ DirectSymbol(2) \in SectorSymbols
    /\ SectorSymbols \ DirectSymbols # {}
    /\ Len(article.stock_impacts) = 5

(***************************************************************************)
(* The endpoints of main.py: an article goes through the ingestion, the    *)
(* deduplication, the entity extraction and the stock impact agent, and    *)
(* the articles of the call go to StorageIndexingAgent.process.            *)
(***************************************************************************)
\* NewsIngestionAgent.process
IngestionProcess(a, emb) ==
    IF a.embedding = NoEmbedding THEN [a EXCEPT !.embedding = emb] ELSE a

\* the loop of StorageIndexingAgent.process over articles[i..] (lines 143-162)
RECURSIVE StorageLoop(_, _, _, _)
StorageLoop(articles, i, processed_ids, stories) ==
    IF i > Len(articles) THEN stories
    ELSE LET a == articles[i]
         IN  IF a.id \in processed_ids
             THEN StorageLoop(articles, i + 1, processed_ids, stories)
             ELSE IF a.is_duplicate
             THEN StorageLoop(articles, i + 1, processed_ids \cup {a.id}, stories)
             ELSE LET IsDuplicateOfA(other) == other.is_duplicate /\ other.duplicate_of = a.id
                      duplicates == SelectSeq(articles, IsDuplicateOfA)
                  IN  StorageLoop(articles, i + 1,
                          processed_ids \cup {a.id}
                              \cup { duplicates[j].id : j \in DOMAIN duplicates },
                          Append(stories, create_unique_story(a, duplicates)))

\* one record of unique_stories.json (source and published_date are copied
\* from the primary article like title and content, and are left out)
StoryRecord(s) ==
    [ id             |-> s.id,
      title          |-> s.primary_article.title,
      content        |-> s.primary_article.content,
      entities       |-> [i \in DOMAIN s.all_entities |->
                             [name |-> s.all_entities[i].name,
                              type |-> s.all_entities[i].entity_type]],
      stock_impacts  |-> [i \in DOMAIN s.all_stock_impacts |->
                             [symbol     |-> s.all_stock_impacts[i].symbol,
                              company    |-> s.all_stock_impacts[i].company_name,
                              confidence |-> s.all_stock_impacts[i].confidence,
                              type       |-> s.all_stock_impacts[i].impact_type]],
      num_duplicates |-> Len(s.duplicate_articles) ]

\* _save_stories and _save_to_json: the file is opened with 'w' and holds
\* the records of the stories given
save_stories(stories) ==
    [exists |-> TRUE, records |-> [i \in DOMAIN stories |-> StoryRecord(stories[i])]]

\* An aggregator that makes a story of every article and groups nothing.
StorageProcess_NoGrouping(articles, stored) ==
    LET batch_stories == [i \in DOMAIN articles |-> create_unique_story(articles[i], <<>>)]
    IN  [ returned       |-> batch_stories,
          unique_stories |-> stored \o batch_stories,
          stories_file   |-> save_stories(batch_stories) ]

\* An aggregator that makes a story of a duplicate whose target is not in the batch.
StorageProcess_OrphanStories(articles, stored) ==
    LET IsOrphan(a) == a.is_duplicate /\ \A j \in DOMAIN articles : articles[j].id # a.duplicate_of
        orphans == SelectSeq(articles, IsOrphan)
        batch_stories == StorageLoop(articles, 1, {}, <<>>)
                           \o [i \in DOMAIN orphans |-> create_unique_story(orphans[i], <<>>)]
    IN  [ returned       |-> batch_stories,
          unique_stories |-> stored \o batch_stories,
          stories_file   |-> save_stories(batch_stories) ]

\* An aggregator that assigns the batch's stories to the story list.
StorageProcess_Replace(articles, stored) ==
    LET batch_stories == StorageLoop(articles, 1, {}, <<>>)
    IN  [ returned       |-> batch_stories,
          unique_stories |-> batch_stories,
          stories_file   |-> save_stories(batch_stories) ]

\* An aggregator that returns and stores the stories of a batch newest first.
StorageProcess_NewestFirst(articles, stored) ==
    LET in_order == StorageLoop(articles, 1, {}, <<>>)
        batch_stories == [i \in DOMAIN in_order |-> in_order[Len(in_order) + 1 - i]]
    IN  [ returned       |-> batch_stories,
          unique_stories |-> stored \o batch_stories,
          stories_file   |-> save_stories(batch_stories) ]

\* StorageIndexingAgent.process: the list returned, the accumulated list and the file
StorageProcess(articles, stored) ==
    LET batch_stories == StorageLoop(articles, 1, {}, <<>>)
    IN  [ returned       |-> batch_stories,
          unique_stories |-> stored \o batch_stories,
          stories_file   |-> save_stories(batch_stories) ]

HdfcDividend == <<"H", "D", "F", "C", " ", "B", "a", "n", "k", " ", "d", "i", "v", "i", "d", "e", "n", "d">>
HdfcPayout   == <<"H", "D", "F", "C", " ", "B", "a", "n", "k", " ", "p", "a", "y", "o", "u", "t">>
BanksPayout  == <<"B", "a", "n", "k", "s", " ", "p", "a", "y", "o", "u", "t">>
BankingBody  == <<"b", "a", "n", "k", "i", "n", "g", " ", "s", "e", "c", "t", "o", "r">>

\* what the sentence encoder returns for the texts submitted: the second is
\* close to the first, the fourth to the second and not to the first, the
\* third is far from all
EncodedTexts ==
    << [title |-> HdfcDividend, content |-> <<>>,        vector |-> <<2, 1>>],
       [title |-> HdfcPayout,   content |-> <<>>,        vector |-> <<1, 1>>],
       [title |-> HdfcDividend, content |-> BankingBody, vector |-> <<1, -1>>],
       [title |-> BanksPayout,  content |-> <<>>,        vector |-> <<1, 2>>] >>

\* EmbeddingGenerator.generate_article_embedding
generate_article_embedding(title, content) ==
    LET k == CHOOSE i \in DOMAIN EncodedTexts :
                 EncodedTexts[i].title = title /\ EncodedTexts[i].content = content
    IN  EncodedTexts[k].vector

\* NewsSubmission (the source is the same for all)
NewsSubmissions ==
    { [title |-> EncodedTexts[i].title, content |-> EncodedTexts[i].content] :
        i \in DOMAIN EncodedTexts }

\* hashlib.md5(title_source).hexdigest()[:12]: one digest per title
article_id(news) ==
    IF news.title = HdfcDividend THEN "a1"
    ELSE IF news.title = HdfcPayout THEN "a2"
    ELSE "a3"

\* main.py, lines 168-175 and 230-237
Converted_news(news) == NewsArticle(article_id(news), news.title, news.content, NoEmbedding)

\* the external extractor of the running service (GEMINI_API_KEY is read from
\* the environment of the process): no credential, or an answer
PipelineBehaviours ==
    { [api_key |-> None, fault |-> "none", parsed |-> [kind |-> "JSONDecodeError"]],
      [api_key |-> "key", fault |-> "none",
       parsed |-> JsonObject(JsonList(<<Str(HdfcBank)>>),
                             JsonList(<<Str(<<"B", "a", "n", "k", "i", "n", "g">>)>>),
                             Absent, Absent, Absent)] }

InitPipeline ==
    /\ threshold = Float(17, 20)
    /\ processed_articles = <<>>
    /\ article = NoArticle
    /\ outcome = "none"
    /\ calls = 0
    /\ company = <<>>
    /\ mapped = NoImpact
    /\ story = NoStory
    /\ extractor \in PipelineBehaviours
    /\ set_order = "declared"
    /\ RegulatorIdle /\ PipelineIdle /\ QueryIdle

\* POST /process: one submission
ProcessArticle ==
    /\ pc = "idle"
    /\ Len(processed_articles) < MaxSeen
    /\ \E news \in NewsSubmissions : news_articles' = << Converted_news(news) >>
    /\ pc' = "loop"
    /\ processed' = <<>>
    /\ returned' = <<>>
    /\ at_call' = [running |-> TRUE, processed_articles |-> processed_articles,
                   unique_stories |-> unique_stories]
    /\ request' = NoRequest
    /\ query_result' = NoResult
    /\ UNCHANGED <<threshold, processed_articles, article, outcome, calls, company, mapped,
                   story, extractor, set_order, regulatorVars, unique_stories, stories_file>>

\* POST /process/batch: a list of submissions, possibly empty
ProcessBatch ==
    /\ pc = "idle"
    /\ \E n \in 0..(MaxSeen - Len(processed_articles)) :
           \E batch \in [1..n -> NewsSubmissions] :
               news_articles' = [i \in 1..n |-> Converted_news(batch[i])]
    /\ pc' = "loop"
    /\ processed' = <<>>
    /\ returned' = <<>>
    /\ at_call' = [running |-> TRUE, processed_articles |-> processed_articles,
                   unique_stories |-> unique_stories]
    /\ request' = NoRequest
    /\ query_result' = NoResult
    /\ UNCHANGED <<threshold, processed_articles, article, outcome, calls, company, mapped,
                   story, extractor, set_order, regulatorVars, unique_stories, stories_file>>

\* article = ingestion_agent.process(article), for the next article of the call
IngestionStage ==
    /\ pc = "loop"
    /\ news_articles # <<>>
    /\ article' = IngestionProcess(Head(news_articles),
                       generate_article_embedding(Head(news_articles).title,
                                                  Head(news_articles).content))
    /\ news_articles' = Tail(news_articles)
    /\ pc' = "dedup"
    /\ UNCHANGED <<threshold, processed_articles, outcome, calls, company, mapped, story,
                   extractor, set_order, regulatorVars, processed, unique_stories,
                   stories_file, returned, at_call, queryVars>>

\* article = dedup_agent.process(article)
DeduplicationStage ==
    /\ pc = "dedup"
    /\ LET r == DedupProcess(article, threshold, processed_articles)
       IN  /\ article' = r.article
           /\ processed_articles' = r.seen
           /\ calls' = calls + 1
    /\ pc' = "entity"
    /\ UNCHANGED <<threshold, outcome, company, mapped, story, extractor, set_order,
                   regulatorVars, news_articles, processed, unique_stories, stories_file,
                   returned, at_call, queryVars>>

\* the seen list after an agent changed the article: the article is the
\* object that line 132 of the deduplication agent appended last
SeenWith(a) == [processed_articles EXCEPT ![Len(processed_articles)] = a]

\* article = entity_agent.process(article)
EntityStage ==
    /\ pc = "entity"
    /\ article' = EntityProcess(article, extractor, set_order).article
    /\ processed_articles' = SeenWith(article')
    /\ pc' = "stock"
    /\ UNCHANGED <<threshold, outcome, calls, company, mapped, story, extractor, set_order,
                   regulatorVars, news_articles, processed, unique_stories, stories_file,
                   returned, at_call, queryVars>>

\* article = stock_agent.process(article); processed.append(article)
StockStage ==
    /\ pc = "stock"
    /\ article' = StockProcess(article)
    /\ processed_articles' = SeenWith(article')
    /\ processed' = Append(processed, article')
    /\ pc' = "loop"
    /\ UNCHANGED <<threshold, outcome, calls, company, mapped, story, extractor, set_order,
                   regulatorVars, news_articles, unique_stories, stories_file, returned, at_call,
                   queryVars>>

\* storage_agent.process(processed), and the endpoint returns
StorageStage ==
    /\ pc = "loop"
    /\ news_articles = <<>>
    /\ LET r == StorageProcess(processed, unique_stories)
       IN  /\ returned' = r.returned
           /\ unique_stories' = r.unique_stories
           /\ stories_file' = r.stories_file
    /\ pc' = "stored"
    /\ UNCHANGED <<threshold, processed_articles, article, outcome, calls, company, mapped,
                   story, extractor, set_order, regulatorVars, news_articles, processed, at_call,
                   queryVars>>

\* the endpoint builds its response and returns: its locals are gone
Respond ==
    /\ pc = "stored"
    /\ pc' = "idle"
    /\ article' = NoArticle
    /\ processed' = <<>>
    /\ at_call' = NoCall
    /\ UNCHANGED <<threshold, processed_articles, outcome, calls, company, mapped, story,
                   extractor, set_order, regulatorVars, news_articles, unique_stories,
                   stories_file, returned, queryVars>>

\* the step just taken is the call of StorageIndexingAgent.process
StorageStep == pc = "loop" /\ pc' = "stored"

\* the stories stored before the step are the first stories after it, unchanged
KeepsStored ==
    /\ Len(unique_stories') >= Len(unique_stories)
    /\ \A i \in DOMAIN unique_stories : unique_stories'[i] = unique_stories[i]

(***************************************************************************)
(* C13.  From empty state, two articles A then B with similarity above the *)
(* threshold, deduplicated and then aggregated as one batch, give exactly  *)
(* one story: its id is A.id, its primary is A and its duplicates are [B]. *)
(***************************************************************************)
C13_TwoSimilarOneStory ==
    ( /\ pc = "stored"
      /\ Len(processed) = 2
      /\ processed_articles = processed
      /\ Len(unique_stories) = Len(returned)
      /\ FloatGT(Similarity(processed[1], processed[2]), threshold) ) =>
        /\ Len(returned) = 1
        /\ returned[1].id = processed[1].id
        /\ returned[1].primary_article = processed[1]
        /\ returned[1].duplicate_articles = << processed[2] >>

\* a batch of two similar articles with different ids was aggregated first
C13_Witness ==
    /\ pc = "stored"
    /\ Len(processed) = 2
    /\ processed_articles = processed
    /\ Len(unique_stories) = Len(returned)
    /\ FloatGT(Similarity(processed[1], processed[2]), threshold)
    /\ processed[1].id # processed[2].id
    /\ Len(returned) = 1
    /\ Len(returned[1].duplicate_articles) = 1

\* article i of the batch is a duplicate whose target is no other article of the batch
Dangling(i) ==
    /\ processed[i].is_duplicate
    /\ \A j \in DOMAIN processed : j # i => processed[j].id # processed[i].duplicate_of

(***************************************************************************)
(* C14.  StorageIndexingAgent.process drops a duplicate whose target is    *)
(* not in the batch: it is neither the primary nor a duplicate of any      *)
(* story of that call, and the stories stored before are unchanged; so a   *)
(* duplicate submitted alone is never attached to its target's story.      *)
(***************************************************************************)
C14_DanglingDuplicateDropped ==
    [][ StorageStep =>
          /\ KeepsStored
          /\ \A i \in DOMAIN processed :
                Dangling(i) =>
                    \A k \in DOMAIN returned' :
                        /\ returned'[k].primary_article # processed[i]
                        /\ \A d \in DOMAIN returned'[k].duplicate_articles :
                              returned'[k].duplicate_articles[d] # processed[i]
      ]_vars

\* a duplicate submitted alone, after the story of its target was stored
C14_Witness ==
    /\ pc = "stored"
    /\ Len(processed) = 1
    /\ Dangling(1)
    /\ returned = <<>>
    /\ \E k \in DOMAIN unique_stories :
          /\ unique_stories[k].id = processed[1].duplicate_of
          /\ unique_stories[k].id # processed[1].id
          /\ unique_stories[k].duplicate_articles = <<>>

\* the primaries of the stories, as they follow each other in the batch
InBatchOrder(stories, batch) ==
    \A k, l \in DOMAIN stories :
        k < l => \E i, j \in DOMAIN batch :
                     /\ i < j
                     /\ batch[i] = stories[k].primary_article
                     /\ batch[j] = stories[l].primary_article

(***************************************************************************)
(* C15.  The accumulated story list only grows: every call of              *)
(* StorageIndexingAgent.process appends the stories of its batch at the    *)
(* end, in batch order, and no step changes a story stored earlier.        *)
(***************************************************************************)
C15_StoriesAppendOnly ==
    [][ /\ KeepsStored
        /\ StorageStep =>
              /\ unique_stories' = unique_stories \o returned'
              /\ InBatchOrder(returned', processed)
        /\ ~StorageStep => unique_stories' = unique_stories
      ]_vars

\* a second call stored two stories behind the story of the first call
C15_Witness ==
    /\ pc = "stored"
    /\ Len(returned) = 2
    /\ Len(unique_stories) = 3
    /\ unique_stories[1].id # unique_stories[2].id

(***************************************************************************)
(* C16.  After every StorageIndexingAgent.process call the story file      *)
(* holds one record for every story of the accumulated story list, in      *)
(* order, with num_duplicates the length of the story's duplicate list.    *)
(***************************************************************************)
C16_FileHoldsAllStories ==
    stories_file.exists =>
        /\ Len(stories_file.records) = Len(unique_stories)
        /\ \A i \in DOMAIN unique_stories :
              /\ stories_file.records[i].id = unique_stories[i].id
              /\ stories_file.records[i].num_duplicates
                    = Len(unique_stories[i].duplicate_articles)

(***************************************************************************)
(* QueryProcessingAgent.  A relevance is kept in units of 1/10000, like    *)
(* the confidences; the rounding of the float additions is not modelled.   *)
(***************************************************************************)
\* self.company_keywords, in declaration order
company_keywords ==
    << [key |-> <<"h", "d", "f", "c">>, symbol |-> "HDFCBANK"],
       [key |-> <<"h", "d", "f", "c", " ", "b", "a", "n", "k">>, symbol |-> "HDFCBANK"],
       [key |-> <<"i", "c", "i", "c", "i">>, symbol |-> "ICICIBANK"],
       [key |-> <<"i", "c", "i", "c", "i", " ", "b", "a", "n", "k">>, symbol |-> "ICICIBANK"],
       [key |-> <<"s", "b", "i">>, symbol |-> "SBIN"],
       [key |-> <<"t", "c", "s">>, symbol |-> "TCS"],
       [key |-> <<"i", "n", "f", "o", "s", "y", "s">>, symbol |-> "INFY"],
       [key |-> <<"w", "i", "p", "r", "o">>, symbol |-> "WIPRO"],
       [key |-> <<"b", "a", "j", "a", "j", " ", "f", "i", "n", "a", "n", "c", "e">>, symbol |-> "BAJFINANCE"],
       [key |-> <<"b", "a", "j", "a", "j">>, symbol |-> "BAJFINANCE"],
       [key |-> <<"r", "e", "l", "i", "a", "n", "c", "e">>, symbol |-> "RELIANCE"] >>

\* self.sector_keywords, in declaration order
sector_keywords ==
    << [key |-> <<"b", "a", "n", "k", "i", "n", "g">>, sector |-> <<"b", "a", "n", "k", "i", "n", "g">>],
       [key |-> <<"b", "a", "n", "k">>, sector |-> <<"b", "a", "n", "k", "i", "n", "g">>],
       [key |-> <<"i", "t">>, sector |-> <<"i", "n", "f", "o", "r", "m", "a", "t", "i", "o", "n", " ", "t", "e", "c", "h", "n", "o", "l", "o", "g", "y">>],
       [key |-> <<"t", "e", "c", "h">>, sector |-> <<"t", "e", "c", "h", "n", "o", "l", "o", "g", "y">>],
       [key |-> <<"a", "u", "t", "o">>, sector |-> <<"a", "u", "t", "o", "m", "o", "b", "i", "l", "e">>],
       [key |-> <<"f", "i", "n", "a", "n", "c", "e">>, sector |-> <<"f", "i", "n", "a", "n", "c", "i", "a", "l", " ", "s", "e", "r", "v", "i", "c", "e", "s">>],
       [key |-> <<"n", "b", "f", "c">>, sector |-> <<"n", "b", "f", "c">>] >>

\* the words parse_query never keeps as keywords
StopWords == { <<"n", "e", "w", "s">>, <<"u", "p", "d", "a", "t", "e">>, <<"l", "a", "t", "e", "s", "t">>, <<"r", "e", "c", "e", "n", "t">> }

\* str.split(): the maximal runs of characters that are no white space
RECURSIVE SplitFrom(_, _, _, _)
SplitFrom(text, i, word, words) ==
    IF i > Len(text)
    THEN IF word = <<>> THEN words ELSE Append(words, word)
    ELSE IF text[i] = " "
    THEN SplitFrom(text, i + 1, <<>>, IF word = <<>> THEN words ELSE Append(words, word))
    ELSE SplitFrom(text, i + 1, Append(word, text[i]), words)

Split(text) == SplitFrom(text, 1, <<>>, <<>>)

\* A parser that keeps each stock symbol once, however many phrases name it.
parse_query_UniqueCompanies(query) ==
    LET query_lower == Lower(query)
        InQuery(entry) == IsSubstr(entry.key, query_lower)
        FirstOfSymbol(k) == \A j \in 1..(k - 1) :
                                ~(InQuery(company_keywords[j])
                                    /\ company_keywords[j].symbol = company_keywords[k].symbol)
        kept == { k \in DOMAIN company_keywords : InQuery(company_keywords[k]) /\ FirstOfSymbol(k) }
        Kept(entry) == \E k \in kept : company_keywords[k] = entry
        found_companies == SelectSeq(company_keywords, Kept)
        found_sectors   == SelectSeq(sector_keywords, InQuery)
        IsKeyword(word) == Len(word) > 3 /\ word \notin StopWords
    IN  [ companies |-> [i \in DOMAIN found_companies |-> found_companies[i].symbol],
          sectors   |-> [i \in DOMAIN found_sectors |-> found_sectors[i].sector],
          keywords  |-> SelectSeq(Split(query_lower), IsKeyword) ]

\* QueryProcessingAgent.parse_query
parse_query(query) ==
    LET query_lower == Lower(query)
        InQuery(entry) == IsSubstr(entry.key, query_lower)
        found_companies == SelectSeq(company_keywords, InQuery)
        found_sectors   == SelectSeq(sector_keywords, InQuery)
        IsKeyword(word) == Len(word) > 3 /\ word \notin StopWords
    IN  [ companies |-> [i \in DOMAIN found_companies |-> found_companies[i].symbol],
          sectors   |-> [i \in DOMAIN found_sectors |-> found_sectors[i].sector],
          keywords  |-> SelectSeq(Split(query_lower), IsKeyword) ]

RECURSIVE SumSeq(_)
SumSeq(numbers) == IF numbers = <<>> THEN 0 ELSE Head(numbers) + SumSeq(Tail(numbers))

\* lines 135-140: the confidence of the story's first impact with the symbol
CompanyRelevance(a_story, symbol) ==
    LET hits == { k \in DOMAIN a_story.all_stock_impacts :
                    a_story.all_stock_impacts[k].symbol = symbol }
    IN  IF hits = {} THEN 0 ELSE a_story.all_stock_impacts[SetMin(hits)].confidence

\* lines 144-149: 0.7 when an entity name holds the sector label
SectorRelevance(a_story, sector) ==
    IF \E k \in DOMAIN a_story.all_entities :
           IsSubstr(sector, Lower(a_story.all_entities[k].name))
    THEN 7000 ELSE 0

\* A keyword score that adds for the title and for the content.
KeywordRelevance_TitleAndContent(a_story, keyword) ==
    (IF IsSubstr(keyword, Lower(a_story.primary_article.title)) THEN 5000 ELSE 0)
      + (IF IsSubstr(keyword, Lower(a_story.primary_article.content)) THEN 3000 ELSE 0)

\* lines 152-161: 0.5 for a keyword of the title, else 0.3 for one of the content
KeywordRelevance(a_story, keyword) ==
    IF IsSubstr(keyword, Lower(a_story.primary_article.title)) THEN 5000
    ELSE IF IsSubstr(keyword, Lower(a_story.primary_article.content)) THEN 3000
    ELSE 0

\* lines 134-140: what the detected companies add for one story
CompaniesRelevance(a_story, companies) ==
    SumSeq([i \in DOMAIN companies |-> CompanyRelevance(a_story, companies[i])])

\* lines 143-149: what the detected sectors add for one story
SectorsRelevance(a_story, sectors, include_sector_news) ==
    IF include_sector_news
    THEN SumSeq([i \in DOMAIN sectors |-> SectorRelevance(a_story, sectors[i])])
    ELSE 0

\* lines 155-161: what the keywords add for one story
KeywordsRelevance(a_story, keywords) ==
    SumSeq([i \in DOMAIN keywords |-> KeywordRelevance(a_story, keywords[i])])

\* lines 131-161: the relevance search_by_query accumulates for one story
Relevance(a_story, parsed, include_sector_news) ==
    CompaniesRelevance(a_story, parsed.companies)
      + SectorsRelevance(a_story, parsed.sectors, include_sector_news)
      + KeywordsRelevance(a_story, parsed.keywords)

\* A sort that orders by relevance and then reverses (ties end up reversed).
RECURSIVE SortDescending_TiesReversed(_, _, _)
SortDescending_TiesReversed(results, i, sorted) ==
    IF i > Len(results) THEN sorted
    ELSE LET before == Cardinality({ k \in DOMAIN sorted :
                                       sorted[k].relevance > results[i].relevance })
         IN  SortDescending_TiesReversed(results, i + 1,
                 SubSeq(sorted, 1, before) \o << results[i] >>
                   \o SubSeq(sorted, before + 1, Len(sorted)))

\* results.sort(key=lambda x: x[1], reverse=True): a stable sort, so that
\* results[i] goes behind the entries sorted so far that are not less relevant
RECURSIVE SortDescending(_, _, _)
SortDescending(results, i, sorted) ==
    IF i > Len(results) THEN sorted
    ELSE LET before == Cardinality({ k \in DOMAIN sorted :
                                       sorted[k].relevance >= results[i].relevance })
         IN  SortDescending(results, i + 1,
                 SubSeq(sorted, 1, before) \o << results[i] >>
                   \o SubSeq(sorted, before + 1, Len(sorted)))

\* results[:limit]
Slice(results, limit) ==
    IF limit >= Len(results) THEN results
    ELSE IF limit >= 0 THEN SubSeq(results, 1, limit)
    ELSE IF Len(results) + limit > 0 THEN SubSeq(results, 1, Len(results) + limit)
    ELSE <<>>

\* A search that sorts with the ties reversed.
search_by_query_TiesReversed(query, limit, include_sector_news, min_relevance_score, all_stories) ==
    LET parsed  == parse_query(query)
        scored  == [i \in DOMAIN all_stories |->
                      [story |-> all_stories[i],
                       relevance |-> Relevance(all_stories[i], parsed, include_sector_news)]]
        IsRelevant(r) == r.relevance >= min_relevance_score
    IN  Slice(SortDescending_TiesReversed(SelectSeq(scored, IsRelevant), 1, <<>>), limit)

\* QueryProcessingAgent.search_by_query
search_by_query(query, limit, include_sector_news, min_relevance_score, all_stories) ==
    LET parsed  == parse_query(query)
        scored  == [i \in DOMAIN all_stories |->
                      [story |-> all_stories[i],
                       relevance |-> Relevance(all_stories[i], parsed, include_sector_news)]]
        IsRelevant(r) == r.relevance >= min_relevance_score
    IN  Slice(SortDescending(SelectSeq(scored, IsRelevant), 1, <<>>), limit)

\* the fields schemas.py declares for QueryResult
QueryResultFields == {"query", "results", "total_results", "processing_time", "explanation"}

\* QueryResult(**kwargs): a keyword that is no field of the model is ignored,
\* a field that is not given takes its default
QueryResult(kwargs) ==
    [ f \in QueryResultFields |-> IF f \in DOMAIN kwargs THEN kwargs[f] ELSE None ]

\* QueryProcessingAgent.process
QueryProcess(req, all_stories) ==
    LET parsed  == parse_query(req.query)
        results == search_by_query(req.query, req.limit, req.include_sector_news,
                                   req.min_relevance_score, all_stories)
    IN  QueryResult([ query             |-> req.query,
                      results           |-> [i \in DOMAIN results |-> results[i].story],
                      total_results     |-> Len(results),
                      processing_time   |-> "elapsed",
                      expansion_applied |-> req.include_sector_news
                                              /\ Len(parsed.sectors) > 0 ])

(***************************************************************************)
(* The endpoints of main.py: the two processing endpoints, stage by stage, *)
(* and the query endpoint between two processing calls.                    *)
(***************************************************************************)
\* ingestion_agent.process raises for the next article (the sentence encoder
\* fails): the except clause of the endpoint takes over, the agents keep
\* what the articles before it left
IngestionRaises ==
    /\ pc = "loop"
    /\ news_articles # <<>>
    /\ pc' = "failed"
    /\ UNCHANGED <<threshold, processed_articles, article, outcome, calls, company, mapped,
                   story, extractor, set_order, regulatorVars, news_articles, processed,
                   unique_stories, stories_file, returned, at_call, queryVars>>

\* the endpoint answers with HTTP 500: its locals are gone
FailureResponse ==
    /\ pc = "failed"
    /\ pc' = "idle"
    /\ article' = NoArticle
    /\ news_articles' = <<>>
    /\ processed' = <<>>
    /\ at_call' = NoCall
    /\ UNCHANGED <<threshold, processed_articles, outcome, calls, company, mapped, story,
                   extractor, set_order, regulatorVars, unique_stories, stories_file,
                   returned, queryVars>>

\* the queries the query endpoint is given between the processing calls
PipelineQueries ==
    { <<"H", "D", "F", "C", " ", "B", "a", "n", "k", " ", "d", "i", "v", "i", "d", "e", "n", "d">>,
      <<"B", "a", "n", "k", " ", "s", "e", "c", "t", "o", "r">> }

\* POST /query: query_agent.process(query, limit, include_sector_news), the
\* minimum relevance left at its default of 0.5
QueryNews ==
    /\ pc = "idle"
    /\ query_result = NoResult
    /\ \E q \in PipelineQueries, sector_news \in BOOLEAN :
          LET req == [query |-> q, limit |-> MaxLimit, include_sector_news |-> sector_news,
                      min_relevance_score |-> 5000]
          IN  /\ request' = req
              /\ query_result' = QueryProcess(req, unique_stories)
    /\ UNCHANGED <<threshold, processed_articles, article, outcome, calls, company, mapped,
                   story, extractor, set_order, regulatorVars, pipelineVars>>

NextPipeline ==
    \/ ProcessArticle \/ ProcessBatch \/ IngestionStage \/ DeduplicationStage
    \/ EntityStage \/ StockStage \/ StorageStage \/ Respond \/ QueryNews

SpecPipeline == InitPipeline /\ [][NextPipeline]_vars

\* the endpoints with a sentence encoder that can fail
NextFailure == NextPipeline \/ IngestionRaises \/ FailureResponse

SpecFailure == InitPipeline /\ [][NextFailure]_vars

(***************************************************************************)
(* The query agent on the story list that a run of the endpoints left.     *)
(***************************************************************************)
NoKey == [api_key |-> None, fault |-> "none", parsed |-> [kind |-> "JSONDecodeError"]]

\* one article through the four agents (main.py, lines 178-181), the
\* extractor without a credential
RunArticle(news, seen) ==
    LET a == IngestionProcess(Converted_news(news),
                              generate_article_embedding(news.title, news.content))
        d == DedupProcess(a, Float(17, 20), seen)
        m == StockProcess(EntityProcess(d.article, NoKey, "declared").article)
    IN  [article |-> m, seen |-> [d.seen EXCEPT ![Len(d.seen)] = m]]

\* the articles news[i..] as one batch (main.py, lines 241-249)
RECURSIVE RunBatch(_, _, _, _, _)
RunBatch(news, i, seen, batch, stored) ==
    IF i > Len(news)
    THEN [seen |-> seen, unique_stories |-> StorageProcess(batch, stored).unique_stories,
          stories_file |-> StorageProcess(batch, stored).stories_file]
    ELSE LET r == RunArticle(news[i], seen)
         IN  RunBatch(news, i + 1, r.seen, Append(batch, r.article), stored)

\* the articles news[i..], each in a call of its own (main.py, lines 178-184)
RECURSIVE RunSingles(_, _, _, _, _)
RunSingles(news, i, seen, stored, file) ==
    IF i > Len(news)
    THEN [seen |-> seen, unique_stories |-> stored, stories_file |-> file]
    ELSE LET r == RunArticle(news[i], seen)
             t == StorageProcess(<< r.article >>, stored)
         IN  RunSingles(news, i + 1, r.seen, t.unique_stories, t.stories_file)

\* what the agents hold after up to MaxSeen submissions
StoredRuns ==
    LET lists == UNION { [1..n -> NewsSubmissions] : n \in 0..MaxSeen }
    IN  { RunBatch(news, 1, <<>>, <<>>, <<>>) : news \in lists }
          \cup { RunSingles(news, 1, <<>>, <<>>, NoFile) : news \in lists }

Queries ==
    { <<>>,
      <<"l", "a", "t", "e", "s", "t", " ", "n", "e", "w", "s">>,
      <<"H", "D", "F", "C", " ", "B", "a", "n", "k", " ", "d", "i", "v", "i", "d", "e", "n", "d">>,
      <<"d", "i", "v", "i", "d", "e", "n", "d">>,
      <<"b", "a", "n", "k", "s", " ", "p", "a", "y", "o", "u", "t", " ", "u", "p", "d", "a", "t", "e">>,
      <<"B", "a", "n", "k", "i", "n", "g", " ", "s", "e", "c", "t", "o", "r">> }

\* the arguments of QueryProcessingAgent.process (QueryRequest: limit >= 1)
Requests ==
    [ query : Queries, limit : 1..MaxLimit, include_sector_news : BOOLEAN,
      min_relevance_score : {0, 5000, 12000} ]

InitQuery ==
    /\ threshold = Float(17, 20)
    /\ article = NoArticle
    /\ outcome = "none"
    /\ company = <<>>
    /\ mapped = NoImpact
    /\ story = NoStory
    /\ extractor = NoLlm
    /\ set_order = "declared"
    /\ RegulatorIdle
    /\ pc = "idle"
    /\ news_articles = <<>>
    /\ processed = <<>>
    /\ returned = <<>>
    /\ at_call = NoCall
    /\ \E run \in StoredRuns :
          /\ processed_articles = run.seen
          /\ calls = Len(run.seen)
          /\ unique_stories = run.unique_stories
          /\ stories_file = run.stories_file
    /\ QueryIdle

\* query_agent.process(query, limit, include_sector_news, min_relevance_score)
Query ==
    /\ pc = "idle"
    /\ query_result = NoResult
    /\ \E req \in Requests :
          /\ request' = req
          /\ query_result' = QueryProcess(req, unique_stories)
    /\ UNCHANGED <<threshold, processed_articles, article, outcome, calls, company, mapped,
                   story, extractor, set_order, regulatorVars, pipelineVars>>

NextQuery == Query

SpecQuery == InitQuery /\ [][NextQuery]_vars

\* what parse_query detects in the query of the request
Detected == parse_query(request.query)

\* the relevance of every story of the story list for the request
StoryRelevances ==
    LET parsed == Detected
    IN  [i \in DOMAIN unique_stories |->
            Relevance(unique_stories[i], parsed, request.include_sector_news)]

\* the stories that reach the minimum relevance, rel their relevances
Qualifying(rel) == { i \in DOMAIN rel : rel[i] >= request.min_relevance_score }

\* the place of a qualifying story: behind the more relevant ones and behind
\* the equally relevant ones that come earlier in the story list
Rank(rel, i) ==
    1 + Cardinality({ j \in Qualifying(rel) :
                        rel[j] > rel[i] \/ (rel[j] = rel[i] /\ j < i) })

(***************************************************************************)
(* C17.  The result of a query holds exactly the stories whose relevance   *)
(* is at least minRelevance, by non-increasing relevance, equally relevant *)
(* stories in story-list order, cut to the first limit entries;            *)
(* total_results is the number of stories returned.                        *)
(***************************************************************************)
C17_FilterSortTruncate ==
    query_result # NoResult =>
        LET rel == StoryRelevances
            q   == Cardinality(Qualifying(rel))
            n   == IF request.limit < q THEN request.limit ELSE q
        IN  /\ Len(query_result.results) = n
            /\ \A i \in Qualifying(rel) :
                  Rank(rel, i) <= n => query_result.results[Rank(rel, i)] = unique_stories[i]
            /\ query_result.total_results = Len(query_result.results)

\* two equally relevant stories qualify, a third does not, and the limit cuts
C17_Witness ==
    /\ query_result # NoResult
    /\ Len(query_result.results) = 1
    /\ LET rel == StoryRelevances
       IN  /\ Cardinality(Qualifying(rel)) > request.limit
           /\ Cardinality(Qualifying(rel)) < Len(unique_stories)
           /\ \E i, j \in Qualifying(rel) :
                 /\ i < j
                 /\ rel[i] = rel[j]
                 /\ unique_stories[i] # unique_stories[j]
                 /\ Rank(rel, i) = 1

(***************************************************************************)
(* C18.  The QueryResult that process returns carries expansion_applied,   *)
(* which is true iff includeSectorNews is true and the query holds a       *)
(* sector phrase.                                                          *)
(***************************************************************************)
C18_ExpansionApplied ==
    query_result # NoResult =>
        /\ "expansion_applied" \in DOMAIN query_result
        /\ query_result.expansion_applied
              = (request.include_sector_news /\ Detected.sectors # <<>>)

NothingDetected ==
    Detected.companies = <<>> /\ Detected.sectors = <<>> /\ Detected.keywords = <<>>

(***************************************************************************)
(* C19.  For the empty query, and for every query in which no company      *)
(* phrase, sector phrase or keyword is detected, process returns a result  *)
(* with no stories, whatever the story list holds.                         *)
(***************************************************************************)
C19_NothingDetectedNoResults ==
    (query_result # NoResult /\ NothingDetected) =>
        /\ query_result.results = <<>>
        /\ query_result.total_results = 0

\* C19 restricted to a minimum relevance above 0 (holds).
C19_PositiveMinRelevance ==
    (query_result # NoResult /\ request.min_relevance_score > 0) => C19_NothingDetectedNoResults

\* the step just taken is the call of one agent by an endpoint
DeduplicationStep == pc = "dedup" /\ pc' = "entity"
EntityStep        == pc = "entity" /\ pc' = "stock"
StockStep         == pc = "stock" /\ pc' = "loop"
QueryStep         == query_result = NoResult /\ query_result' # NoResult

\* the seen list holds the same objects in the same order, the article in
\* flight (its last entry) as the step left it
SameSeenObjects ==
    /\ Len(processed_articles') = Len(processed_articles)
    /\ \A i \in 1..(Len(processed_articles) - 1) :
           processed_articles'[i] = processed_articles[i]
    /\ processed_articles'[Len(processed_articles')] = article'

\* the storage agent's state is as before the step
SameStorage == unique_stories' = unique_stories /\ stories_file' = stories_file

(***************************************************************************)
(* C20.  Each agent writes only its own outputs.  The deduplication agent  *)
(* changes only is_duplicate and duplicate_of of the article and the seen  *)
(* list; the entity agent changes only the entities of the article; the    *)
(* stock agent changes only its stock_impacts; the storage agent changes   *)
(* no article and not the seen list; the query agent changes neither the   *)
(* stored story list nor any article.                                      *)
(***************************************************************************)
C20_StagesWriteOwnOutputs ==
    [][ /\ DeduplicationStep =>
              /\ article' = [article EXCEPT !.is_duplicate = article'.is_duplicate,
                                            !.duplicate_of = article'.duplicate_of]
              /\ SameStorage
        /\ EntityStep =>
              /\ article' = [article EXCEPT !.entities = article'.entities]
              /\ SameSeenObjects
              /\ SameStorage
        /\ StockStep =>
              /\ article' = [article EXCEPT !.stock_impacts = article'.stock_impacts]
              /\ SameSeenObjects
              /\ SameStorage
        /\ StorageStep =>
              /\ article' = article
              /\ processed' = processed
              /\ processed_articles' = processed_articles
        /\ QueryStep =>
              /\ SameStorage
              /\ article' = article
              /\ processed_articles' = processed_articles
      ]_vars

\* a query was answered from a stored story, after a call in which every
\* agent wrote its output: a duplicate with entities and stock impacts
C20_Witness ==
    /\ pc = "idle"
    /\ query_result # NoResult
    /\ query_result.total_results > 0
    /\ \E i \in DOMAIN processed_articles :
           /\ processed_articles[i].is_duplicate
           /\ processed_articles[i].entities # <<>>
           /\ processed_articles[i].stock_impacts # <<>>

\* the call of StorageIndexingAgent.process has returned: processed is the
\* batch it was given and returned the stories it made
Stored == pc = "stored"

\* the articles of the batch flagged as duplicates of the id given, in batch order
FlaggedOf(id) ==
    LET IsFlagged(o) == o.is_duplicate /\ o.duplicate_of = id
    IN  SelectSeq(processed, IsFlagged)

\* the batch positions of the article that is the primary of the k-th story
PrimaryPositions(k) ==
    { i \in DOMAIN processed : processed[i] = returned[k].primary_article }

(***************************************************************************)
(* C21.  Every story StorageIndexingAgent.process creates has the id of    *)
(* its primary article, its primary is a non-duplicate article of the      *)
(* batch, its duplicates are exactly the batch articles flagged duplicate  *)
(* of the primary's id, in batch order, and the stories are returned in    *)
(* the batch order of their primaries.                                     *)
(***************************************************************************)
C21_StoriesFollowBatch ==
    Stored =>
        /\ \A k \in DOMAIN returned :
               /\ returned[k].id = returned[k].primary_article.id
               /\ ~returned[k].primary_article.is_duplicate
               /\ PrimaryPositions(k) # {}
               /\ returned[k].duplicate_articles = FlaggedOf(returned[k].primary_article.id)
        /\ \A k, l \in DOMAIN returned :
               k < l => \A i \in PrimaryPositions(k), j \in PrimaryPositions(l) : i < j

\* a batch gave two stories, one of them with a duplicate
C21_Witness ==
    /\ Stored
    /\ Len(returned) >= 2
    /\ \E k \in DOMAIN returned : returned[k].duplicate_articles # <<>>

\* a query was answered
Answered == query_result # NoResult

\* the sector labels detected in the query that an entity of the story holds
MatchingSectors(a_story) ==
    { Detected.sectors[k] : k \in { j \in DOMAIN Detected.sectors :
                                      SectorRelevance(a_story, Detected.sectors[j]) > 0 } }

Symbols == { company_keywords[k].symbol : k \in DOMAIN company_keywords }

\* the company phrases of a symbol that the lower-cased query holds
PhrasesIn(query_lower, symbol) ==
    { k \in DOMAIN company_keywords :
        /\ company_keywords[k].symbol = symbol
        /\ IsSubstr(company_keywords[k].key, query_lower) }
Phrases(symbol) == PhrasesIn(Lower(request.query), symbol)

\* the confidence a story gives a symbol: that of its impact on the symbol, or 0
StoryConfidence(a_story, symbol) ==
    IF \E k \in DOMAIN a_story.all_stock_impacts : a_story.all_stock_impacts[k].symbol = symbol
    THEN LET k == CHOOSE k \in DOMAIN a_story.all_stock_impacts :
                      a_story.all_stock_impacts[k].symbol = symbol
         IN  a_story.all_stock_impacts[k].confidence
    ELSE 0

\* the entries of a parsed company list that are the symbol given
EntriesOf(companies, symbol) ==
    LET IsSymbol(c) == c = symbol
    IN  SelectSeq(companies, IsSymbol)

(***************************************************************************)
(* C23.  parse_query lists a stock symbol once for every company phrase    *)
(* the lower-cased query holds, and the score of a story adds the story's  *)
(* confidence for the symbol once per entry of that list: two phrases of   *)
(* one symbol add twice the confidence for a story with an impact on the   *)
(* symbol, and nothing for a story without.                                *)
(***************************************************************************)
C23_SymbolScoredPerPhrase ==
    Answered =>
        LET companies   == Detected.companies
            query_lower == Lower(request.query)
        IN  \A symbol \in Symbols :
                LET entries == EntriesOf(companies, symbol)
                    phrases == Cardinality(PhrasesIn(query_lower, symbol))
                IN  /\ Len(entries) = phrases
                    /\ \A i \in DOMAIN unique_stories :
                           CompaniesRelevance(unique_stories[i], entries)
                             = phrases * StoryConfidence(unique_stories[i], symbol)

\* a query with two phrases of one symbol, a story with an impact on the
\* symbol and a story without
C23_Witness ==
    /\ Answered
    /\ \E symbol \in Symbols :
          /\ Cardinality(Phrases(symbol)) = 2
          /\ \E i \in DOMAIN unique_stories : StoryConfidence(unique_stories[i], symbol) > 0
          /\ \E i \in DOMAIN unique_stories : StoryConfidence(unique_stories[i], symbol) = 0

\* the keyword occurs in the lower-cased text
Occurs(keyword, text) == IsSubstr(keyword, Lower(text))

\* the entries of the keyword list found in the title of the story's primary
\* article, and those found in its body only
InTitle(a_story, keywords) ==
    { k \in DOMAIN keywords : Occurs(keywords[k], a_story.primary_article.title) }
InBodyOnly(a_story, keywords) ==
    { k \in DOMAIN keywords :
        /\ ~Occurs(keywords[k], a_story.primary_article.title)
        /\ Occurs(keywords[k], a_story.primary_article.content) }

(***************************************************************************)
(* C24.  A keyword adds exactly 0.5 to a story when the lower-cased title  *)
(* of the primary article holds it, exactly 0.3 when the title does not    *)
(* and the lower-cased body does, and nothing otherwise: never both, and   *)
(* the titles and bodies of the duplicate articles do not count.           *)
(***************************************************************************)
C24_KeywordTitleElseBody ==
    Answered =>
        LET keywords == Detected.keywords
        IN  \A i \in DOMAIN unique_stories :
                KeywordsRelevance(unique_stories[i], keywords)
                  = 5000 * Cardinality(InTitle(unique_stories[i], keywords))
                      + 3000 * Cardinality(InBodyOnly(unique_stories[i], keywords))

\* a keyword in the title and in the body of the primary of one story, and a
\* keyword that only a duplicate of a story holds
C24_Witness ==
    /\ Answered
    /\ \E i \in DOMAIN unique_stories, k \in DOMAIN Detected.keywords :
          /\ Occurs(Detected.keywords[k], unique_stories[i].primary_article.title)
          /\ Occurs(Detected.keywords[k], unique_stories[i].primary_article.content)
    /\ \E i \in DOMAIN unique_stories, k \in DOMAIN Detected.keywords :
          /\ k \notin InTitle(unique_stories[i], Detected.keywords)
                        \cup InBodyOnly(unique_stories[i], Detected.keywords)
          /\ \E d \in DOMAIN unique_stories[i].duplicate_articles :
                 Occurs(Detected.keywords[k], unique_stories[i].duplicate_articles[d].content)

\* the i-th article of the batch is flagged duplicate of an article that came
\* earlier in the same batch
TargetInBatch(i) ==
    /\ processed[i].is_duplicate
    /\ \E j \in 1..(i - 1) : processed[j].id = processed[i].duplicate_of

\* the stories returned that list the article among their duplicates
StoriesListing(a) ==
    { k \in DOMAIN returned :
        \E d \in DOMAIN returned[k].duplicate_articles :
            returned[k].duplicate_articles[d] = a }

(***************************************************************************)
(* C25.  No duplicate of the batch is lost: every article flagged          *)
(* duplicate whose target is an article of the same batch is among the     *)
(* duplicates of exactly one story of that call, also when the target was  *)
(* itself flagged duplicate.                                               *)
(***************************************************************************)
C25_NoInBatchDuplicateLost ==
    Stored =>
        \A i \in DOMAIN processed :
            TargetInBatch(i) => Cardinality(StoriesListing(processed[i])) = 1

\* C25 for the duplicates whose target in the batch is not flagged duplicate
\* and is the first article of the batch with its id (holds).
C25_TargetIsPrimary ==
    Stored =>
        \A i \in DOMAIN processed :
            (/\ TargetInBatch(i)
             /\ \E j \in 1..(i - 1) :
                   /\ processed[j].id = processed[i].duplicate_of
                   /\ ~processed[j].is_duplicate
                   /\ \A h \in 1..(j - 1) : processed[h].id # processed[j].id)
                => Cardinality(StoriesListing(processed[i])) = 1

\* the stories returned whose primary is the article
StoriesOf(a) == { k \in DOMAIN returned : returned[k].primary_article = a }

(***************************************************************************)
(* C26.  Every article of a batch that is not flagged duplicate is the     *)
(* primary of exactly one story returned for the batch, also when two      *)
(* articles of the batch carry the same id.                                *)
(***************************************************************************)
C26_EveryOriginalHasStory ==
    Stored =>
        \A i \in DOMAIN processed :
            ~processed[i].is_duplicate => Cardinality(StoriesOf(processed[i])) = 1

\* C26 for the batches in which no two articles carry the same id (holds).
C26_DistinctIds ==
    (/\ Stored
     /\ \A i, j \in DOMAIN processed : i # j => processed[i].id # processed[j].id)
        => C26_EveryOriginalHasStory

\* the running call has failed and the endpoint is about to answer
Failed == pc = "failed"

(***************************************************************************)
(* C27.  When a call fails partway (a stage raises for the k-th article),  *)
(* the seen list of the deduplication agent and the stored story list are  *)
(* as they were before the call.                                           *)
(***************************************************************************)
C27_FailedCallLeavesNoTrace ==
    Failed =>
        /\ processed_articles = at_call.processed_articles
        /\ unique_stories = at_call.unique_stories

\* C27 for the stored story list alone (holds): storage runs after the loop.
C27_FailedCallStoresNothing ==
    Failed => unique_stories = at_call.unique_stories

\* DeduplicationAgent.process has returned: the seen list it searched is the
\* seen list without the article it appended
Searched == SubSeq(processed_articles, 1, Len(processed_articles) - 1)

\* what find_duplicates returned in that call
Found == find_duplicates(article, threshold, Searched)

\* the positions of the searched list whose similarity reaches the threshold
AboveThreshold ==
    { i \in DOMAIN Searched : FloatGE(Similarity(article, Searched[i]), threshold) }

\* those of them that no article of the searched list exceeds in similarity
MostSimilar ==
    { i \in AboveThreshold :
        \A j \in DOMAIN Searched :
            ~FloatGT(Similarity(article, Searched[j]), Similarity(article, Searched[i])) }

\* the members of a set of positions in increasing order
RECURSIVE Ascending(_)
Ascending(positions) ==
    IF positions = {} THEN <<>>
    ELSE << SetMin(positions) >> \o Ascending(positions \ {SetMin(positions)})

(***************************************************************************)
(* C28.  For a threshold in (0,1] find_duplicates returns is_duplicate =   *)
(* true exactly when all_similar_ids is not empty; all_similar_ids is the  *)
(* ids of the seen articles with similarity >= threshold, in seen order;   *)
(* and when is_duplicate is true, duplicate_of is in all_similar_ids: it   *)
(* is the id of the earliest seen article among the most similar ones.     *)
(***************************************************************************)
C28_FindDuplicatesResult ==
    (outcome = "ok" /\ FloatGT(threshold, Float(0, 1))) =>
        /\ Found.is_duplicate <=> Found.all_similar # <<>>
        /\ Found.all_similar
              = [k \in 1..Cardinality(AboveThreshold) |->
                    Searched[Ascending(AboveThreshold)[k]].id]
        /\ Found.is_duplicate =>
              /\ MostSimilar # {}
              /\ Found.duplicate_of = Searched[SetMin(MostSimilar)].id
              /\ \E k \in DOMAIN Found.all_similar : Found.all_similar[k] = Found.duplicate_of
        /\ article.is_duplicate = Found.is_duplicate

\* two seen articles with different ids are equally and most similar to the
\* article, which was flagged duplicate
C28_Witness ==
    /\ outcome = "ok"
    /\ FloatGT(threshold, Float(0, 1))
    /\ Found.is_duplicate
    /\ \E i, j \in MostSimilar : i < j /\ Searched[i].id # Searched[j].id

\* map_company_to_stock has returned for the company name
Mapped == mapped # NoImpact

\* the table keys that match the name in either direction, and those the
\* name contains
MatchingKeys ==
    { i \in DOMAIN company_to_symbol :
        \/ IsSubstr(company_to_symbol[i].key, Lower(company))
        \/ IsSubstr(Lower(company), company_to_symbol[i].key) }
ContainedKeys ==
    { i \in DOMAIN company_to_symbol : IsSubstr(company_to_symbol[i].key, Lower(company)) }

\* the name is no key of the table
NoExactEntry == \A i \in DOMAIN company_to_symbol : company_to_symbol[i].key # Lower(company)

\* the contained keys that no contained key exceeds in length
LongestContained ==
    { i \in ContainedKeys :
        \A j \in ContainedKeys : Len(company_to_symbol[j].key) <= Len(company_to_symbol[i].key) }

\* C29, first part: without an exact entry the symbol is that of the first
\* matching key in declaration order (holds).
C29_FirstKeyInOrder ==
    (Mapped /\ NoExactEntry /\ MatchingKeys # {}) =>
        mapped.symbol = company_to_symbol[SetMin(MatchingKeys)].symbol

(***************************************************************************)
(* C29.  Without an exact table entry, a company name that matches         *)
(* several table keys gets the symbol of the first such key in declaration *)
(* order; and for every company term the fallback matcher can emit, that   *)
(* is the symbol of the longest table key the term contains.               *)
(***************************************************************************)
C29_MostSpecificKey ==
    /\ C29_FirstKeyInOrder
    /\ (Mapped /\ company \in FallbackNames /\ ContainedKeys # {}) =>
            \E i \in LongestContained : mapped.symbol = company_to_symbol[i].symbol

(***************************************************************************)
(* C30.  After any sequence of single-article and batch calls no two       *)
(* stories of the accumulated story list share an id, so that              *)
(* get_story_by_id identifies at most one stored story.                    *)
(***************************************************************************)
C30_StoryIdsUnique ==
    \A i, j \in DOMAIN unique_stories :
        i # j => unique_stories[i].id # unique_stories[j].id

\* C30 within the stories of one call (holds): the set of processed ids of
\* StorageIndexingAgent.process lets no id through twice.
C30_UniqueWithinCall ==
    \A i, j \in DOMAIN returned : i # j => returned[i].id # returned[j].id

====
